---------------------------- MODULE Spec2Model ----------------------------
(***************************************************************************)
(* A model of the EVM opcode handlers of src/evm/opcode_handlers.cpp.      *)
(*                                                                         *)
(* The state is the interpreter context (frame stack, status, return-data, *)
(* jump flag) and the part of the Host the handlers write (storage,        *)
(* transient storage).  Every action is one handler's doExecute, run to    *)
(* completion on the frame on top of the frame stack.  What the Host       *)
(* answers (access status, balance, account existence, the result of a     *)
(* sub-call, the storage status) is an input of the action.                *)
(*                                                                         *)
(* Integer widths.  TLC's integers are 32 bits wide, so the three widths   *)
(* the handlers convert between are scaled down, keeping their order:      *)
(*   uint64_t / int64_t : W64 bits,  evmc::address : W64 + 4 bits,         *)
(*   intx::uint256      : W64 + 8 bits.                                    *)
(* Every conversion is modelled by what it does at its width (a modulus,   *)
(* a sign flip); every gas constant keeps its real value, and fits.        *)
(***************************************************************************)
EXTENDS Integers, Sequences, FiniteSets, TLC

VARIABLES
  frames,      \* InterpreterExecContext's frame stack, current frame last
  status,      \* InterpreterExecContext's status (setStatus)
  returnData,  \* InterpreterExecContext's return-data (setReturnData)
  isJump,      \* InterpreterExecContext::IsJump
  storage,     \* the Host's storage of the executing account, by key
  tstorage,    \* the Host's transient storage of the executing account
  last,        \* history: the handler that ran last, the frame before it,
               \* the Host calls it made (in order), the exit it took
  fuel         \* the handlers the driver may still dispatch (a bound of the model)

vars == <<frames, status, returnData, isJump, storage, tstorage, last, fuel>>

---------------------------------------------------------------------------
(* Widths *)

W64 == 20
Two64 == 2 ^ W64
Two63 == 2 ^ (W64 - 1)
TwoAddr == 2 ^ (W64 + 4)
Two256 == 2 ^ (W64 + 8)

(* The largest memory expandMemoryAndChargeGas accepts. *)
MAX_REQUIRED_MEMORY_SIZE == 1024

---------------------------------------------------------------------------
(* Program constants *)

OP_JUMPDEST == 91
OP_PUSH1 == 96
OP_DUP1 == 128
OP_SWAP1 == 144
OP_LOG0 == 160
OP_CREATE == 240
OP_CALL == 241
OP_CALLCODE == 242
OP_DELEGATECALL == 244
OP_CREATE2 == 245
OP_STATICCALL == 250

EVMC_CALL == 0
EVMC_DELEGATECALL == 1
EVMC_CALLCODE == 2
EVMC_CREATE == 3
EVMC_CREATE2 == 4
CallKinds == {EVMC_CALL, EVMC_DELEGATECALL, EVMC_CALLCODE, EVMC_CREATE, EVMC_CREATE2}

EVMC_STATIC == 1

EVMC_FRONTIER == 0
EVMC_TANGERINE_WHISTLE == 2
EVMC_SPURIOUS_DRAGON == 3
EVMC_BERLIN == 8
EVMC_SHANGHAI == 11

COLD_ACCOUNT_ACCESS_COST == 2600
WARM_ACCOUNT_ACCESS_COST == 100
ADDITIONAL_COLD_ACCOUNT_ACCESS_COST == 2500
COLD_SLOAD_COST == 2100
CALL_VALUE_COST == 9000
CALL_GAS_STIPEND == 2300
ACCOUNT_CREATION_COST == 25000
MAX_SIZE_OF_INITCODE == 49152
MAXSTACK == 1024
WORD_COPY_COST == 3

---------------------------------------------------------------------------
(* Conversions *)

\* uint256ToUint64: the low 64 bits.
uint256ToUint64(Value) == Value % Two64

\* static_cast<int64_t>(intx::uint256): the low 64 bits, two's complement.
ToInt64(Value) ==
  LET Lo == Value % Two64
  IN IF Lo >= Two63 THEN Lo - Two64 ELSE Lo

\* (uint64_t) of an int64_t, as at a call of chargeGas.
ToUint64(Value) == Value % Two64

\* intx::be::trunc<evmc::address>: the low 20 bytes.
trunc_address(Value) == Value % TwoAddr

\* Arithmetic of intx::uint256 wraps at 2^256.
Add256(A, B) == (A + B) % Two256

Min(A, B) == IF A < B THEN A ELSE B

Zeros(N) == [I \in 1..N |-> 0]

\* Bytes [Off, Off + Size) of a buffer (0-based Off); only called in range.
Slice(Buf, Off, Size) == [I \in 1..Size |-> Buf[Off + I]]

---------------------------------------------------------------------------
(* Gas and memory *)

\* A cost of 3 per word, without the quadratic term.
MemoryCost_Linear(Words) == (3 * Words) % Two64

\* The lambda MemoryCost: computed in __int128, cast to uint64_t.
MemoryCost(Words) == ((Words * Words) \div 512 + 3 * Words) % Two64

\* A cost that charges the whole of the new size, not the difference.
calculateMemoryExpansionCost_Whole(CurrentSize, NewSize) == IF NewSize <= CurrentSize THEN 0 ELSE MemoryCost(((NewSize + 31) % Two64) \div 32)

calculateMemoryExpansionCost(CurrentSize, NewSize) ==
  IF NewSize <= CurrentSize
  THEN 0
  ELSE LET CurrentWords == ((CurrentSize + 31) % Two64) \div 32
           NewWords == ((NewSize + 31) % Two64) \div 32
       IN (MemoryCost(NewWords) - MemoryCost(CurrentWords)) % Two64

\* A charge that subtracts without looking at what is left.
chargeGas_Unchecked(Frame, GasCost) == [ok |-> TRUE, frame |-> [Frame EXCEPT !.gas = @ - GasCost]]

\* chargeGas: [ok, frame]; GasCost is a uint64_t.
chargeGas(Frame, GasCost) ==
  IF ToUint64(Frame.gas) < GasCost
  THEN [ok |-> FALSE, frame |-> Frame]
  ELSE [ok |-> TRUE, frame |-> [Frame EXCEPT !.gas = @ - GasCost]]

numWords(Size) == ((Size + 31) % Two64) \div 32

\* A copy that charges nothing for its words.
copyCodeAndChargeGas_Free(Frame, Size) == [ok |-> TRUE, frame |-> Frame]

copyCodeAndChargeGas(Frame, Size) ==
  chargeGas(Frame, (numWords(Size) * WORD_COPY_COST) % Two64)

\* expandMemoryAndChargeGas: [res, frame], res one of "ok", "oog" (false
\* returned), or the error EVM_REQUIRE raises.  The frame's expansionGas is a
\* history field: the expansion gas charged to the frame so far.
expandMemoryAndChargeGas(Frame, RequiredSize) ==
  IF ~(RequiredSize <= MAX_REQUIRED_MEMORY_SIZE)
  THEN [res |-> "EVMTooLargeRequiredMemory", frame |-> Frame]
  ELSE LET CurrentSize == Len(Frame.Memory)
           Charged == chargeGas(Frame,
                        calculateMemoryExpansionCost(CurrentSize, RequiredSize))
           Paid == [Charged.frame EXCEPT
                      !.expansionGas =
                         @ + calculateMemoryExpansionCost(CurrentSize, RequiredSize)]
       IN IF ~Charged.ok
          THEN [res |-> "oog", frame |-> Frame]
          ELSE IF RequiredSize > CurrentSize
               THEN [res |-> "ok",
                     frame |-> [Paid EXCEPT
                                  !.Memory = @ \o Zeros(RequiredSize - CurrentSize)]]
               ELSE [res |-> "ok", frame |-> Paid]

\* checkMemoryExpandAndChargeGas(Frame, const uint256 &Offset, uint64_t Size)
checkMemoryExpandAndChargeGas64(Frame, Offset, Size) ==
  IF ~(Offset <= Two64 - 1)
  THEN [res |-> "EVMTooLargeRequiredMemory", frame |-> Frame]
  ELSE IF ~(uint256ToUint64(Offset) < (Two64 - 1) - Size)
       THEN [res |-> "IntegerOverflow", frame |-> Frame]
       ELSE expandMemoryAndChargeGas(Frame, uint256ToUint64(Offset) + Size)

\* checkMemoryExpandAndChargeGas(Frame, const uint256 &Offset, const uint256 &Size)
checkMemoryExpandAndChargeGas256(Frame, Offset, Size) ==
  IF Size = 0
  THEN [res |-> "ok", frame |-> Frame]
  ELSE IF ~(Size <= Two64 - 1)
       THEN [res |-> "EVMTooLargeRequiredMemory", frame |-> Frame]
       ELSE checkMemoryExpandAndChargeGas64(Frame, Offset, uint256ToUint64(Size))

---------------------------------------------------------------------------
(* The frame's stack (EVMFrame), top last *)

stackHeight(Frame) == Len(Frame.stack)

\* The most entries a stack holds (1024 in the EVM), scaled.
STACK_LIMIT == 17

\* peek(N): the N-th entry from the top, 0 the top.  The handlers check the
\* height first; below the stack the model reads 0.
peek(Frame, N) ==
  IF N < Len(Frame.stack) THEN Frame.stack[Len(Frame.stack) - N] ELSE 0

\* push on a full stack raises stack-overflow instead of pushing.
pushFaults(Frame) == stackHeight(Frame) >= STACK_LIMIT

\* N times pop().
popN(Frame, N) ==
  [Frame EXCEPT !.stack = SubSeq(@, 1, Len(@) - N)]

push(Frame, Value) == [Frame EXCEPT !.stack = Append(@, Value)]

isStaticMode(Frame) == (Frame.flags % 2) = EVMC_STATIC

\* A depth test that lets a frame at depth MAXSTACK call on.
DepthExceeded_OffByOne(Frame) == Frame.depth > MAXSTACK

\* Frame->Msg->depth >= MAXSTACK, the first "light" failure of CALL and CREATE.
DepthExceeded(Frame) == Frame.depth >= MAXSTACK

---------------------------------------------------------------------------
(* What a handler execution leaves: the frame, the status and return-data  *)
(* of the context, the Host calls made, and the exit taken.                *)

Outcome(Frame, Status, ReturnData, Events, Exit) ==
  [frame |-> Frame, status |-> Status, rd |-> ReturnData,
   events |-> Events, exit |-> Exit, freed |-> FALSE, jump |-> FALSE]

\* An unwinding that frees the frame before it reads the frame's gas.
Unwound_PopFirst(Frame, Status, ReturnData, Events, Exit) ==
  [frame |-> Frame, status |-> Status, rd |-> ReturnData,
   events |-> Events \o <<[fn |-> "freeBackFrame"],
                          [fn |-> "RemainingGas", gas |-> Frame.gas]>>,
   exit |-> Exit, freed |-> TRUE, jump |-> FALSE]

\* The same for a handler that ends with Context->freeBackFrame() and the
\* credit of the frame's remaining gas to the frame below.
Unwound(Frame, Status, ReturnData, Events, Exit) ==
  [frame |-> Frame, status |-> Status, rd |-> ReturnData,
   events |-> Events \o <<[fn |-> "RemainingGas", gas |-> Frame.gas],
                          [fn |-> "freeBackFrame"]>>,
   exit |-> Exit, freed |-> TRUE, jump |-> FALSE]

\* The status an error raised by EVM_REQUIRE / EVM_STACK_CHECK ends with.
ErrorStatus(Error) ==
  CASE Error = "EVMStaticModeViolation" -> "EVMC_STATIC_MODE_VIOLATION"
    [] Error = "UnexpectedNumArgs" -> "EVMC_STACK_UNDERFLOW"
    [] Error = "EVMStackOverflow" -> "EVMC_STACK_OVERFLOW"
    [] Error = "EVMBadJumpDestination" -> "EVMC_BAD_JUMP_DESTINATION"
    [] Error = "EVMTooLargeRequiredMemory" -> "TOO_LARGE_MEMORY"
    [] Error = "IntegerOverflow" -> "INTEGER_OVERFLOW"
    [] Error = "UnexpectedEnd" -> "UNEXPECTED_END"
    [] OTHER -> "EVMC_FAILURE"

Raise(Frame, ReturnData, Events, Error) ==
  Outcome(Frame, ErrorStatus(Error), ReturnData, Events, Error)

HasEvent(Events, Fn) == \E I \in 1..Len(Events) : Events[I].fn = Fn

EventsOf(Events, Fn) == { I \in 1..Len(Events) : Events[I].fn = Fn }

---------------------------------------------------------------------------
(* What the Host answers to one handler execution *)

\* evmc::Result of host.call: gas_left is chosen by GasLeft below.
HostResults ==
  { [status_code |-> "EVMC_SUCCESS", left |-> "none", output_data |-> <<170, 187>>,
     gas_refund |-> 7, create_address |-> 77],
    [status_code |-> "EVMC_SUCCESS", left |-> "all", output_data |-> <<>>,
     gas_refund |-> 0, create_address |-> 78],
    [status_code |-> "EVMC_REVERT", left |-> "some", output_data |-> <<204>>,
     gas_refund |-> 0, create_address |-> 0] }

\* The gas a sub-call given SubGas hands back: between 0 and SubGas.
GasLeft(Sel, SubGas) ==
  IF SubGas <= 0 THEN 0
  ELSE CASE Sel = "none" -> 0
         [] Sel = "all" -> SubGas
         [] OTHER -> Min(43, SubGas)

HostAnswers ==
  [access : {"COLD", "WARM"}, balance : {0, 5}, exists : BOOLEAN,
   result : HostResults]

\* memcpy of Bytes into Memory at Off; the handlers' expansion makes room.
MemWrite(Memory, Off, Bytes) ==
  [I \in 1..Len(Memory) |->
     IF I > Off /\ I <= Off + Len(Bytes) THEN Bytes[I - Off] ELSE Memory[I]]

---------------------------------------------------------------------------
(* CallHandler::doExecute: CALL, CALLCODE, DELEGATECALL, STATICCALL *)

\* A sub-message that starts without the flags of its parent.
CallNewMsg_FlagsDropped(Frame, OpCode, Gas, Dest, Value, InputOffset, InputSize) == [kind |-> OpCode, flags |-> IF OpCode = OP_STATICCALL THEN EVMC_STATIC ELSE 0, depth |-> Frame.depth + 1, gas |-> ToInt64(Gas), recipient |-> IF OpCode = OP_CALL \/ OpCode = OP_STATICCALL THEN Dest ELSE Frame.recipient, sender |-> IF OpCode = OP_DELEGATECALL THEN Frame.sender ELSE Frame.recipient, input_offset |-> uint256ToUint64(InputOffset), input_size |-> uint256ToUint64(InputSize), value |-> IF OpCode = OP_DELEGATECALL THEN Frame.value ELSE Value, code_address |-> Dest, create2_salt |-> 0]

\* The evmc_message built at lines 1233-1250.
CallNewMsg(Frame, OpCode, Gas, Dest, Value, InputOffset, InputSize) ==
  [kind |-> OpCode,
   flags |-> IF OpCode = OP_STATICCALL THEN EVMC_STATIC ELSE Frame.flags,
   depth |-> Frame.depth + 1,
   gas |-> ToInt64(Gas),
   recipient |-> IF OpCode = OP_CALL \/ OpCode = OP_STATICCALL
                 THEN Dest ELSE Frame.recipient,
   sender |-> IF OpCode = OP_DELEGATECALL THEN Frame.sender ELSE Frame.recipient,
   input_offset |-> uint256ToUint64(InputOffset),
   input_size |-> uint256ToUint64(InputSize),
   value |-> IF OpCode = OP_DELEGATECALL THEN Frame.value ELSE Value,
   code_address |-> Dest,
   create2_salt |-> 0]

\* Lines 1259-1269: the cost of the value transfer and of the new account.
CallCost(NeedValue, OpCode, Exists) ==
  (IF NeedValue THEN CALL_VALUE_COST ELSE 0)
  + (IF OpCode = OP_CALL /\ ~Exists THEN ACCOUNT_CREATION_COST ELSE 0)

\* Lines 1277-1280: the stipend added to the sub-message's gas.
CallStipend(NeedValue) == IF NeedValue THEN CALL_GAS_STIPEND ELSE 0

\* A dispatch that drops what the callee returned.
CallDispatch_NoOutput(Frame, Events, NewMsg, OutputOffset, OutputSize, H) == Outcome(chargeGas(Frame, ToUint64(NewMsg.gas - GasLeft(H.result.left, NewMsg.gas))).frame, H.result.status_code, <<>>, Append(Events, [fn |-> "call", msg |-> NewMsg, result |-> [status_code |-> H.result.status_code, gas_left |-> GasLeft(H.result.left, NewMsg.gas), gas_refund |-> H.result.gas_refund, output_data |-> H.result.output_data, create_address |-> H.result.create_address], gas_before |-> Frame.gas]), "called")

\* Lines 1282-1301: host.call and what follows it.
CallDispatch(Frame, Events, NewMsg, OutputOffset, OutputSize, H) ==
  LET Left == GasLeft(H.result.left, NewMsg.gas)
      Result == [status_code |-> H.result.status_code, gas_left |-> Left,
                 gas_refund |-> H.result.gas_refund,
                 output_data |-> H.result.output_data,
                 create_address |-> H.result.create_address]
      Ev == Append(Events, [fn |-> "call", msg |-> NewMsg, result |-> Result,
                            gas_before |-> Frame.gas])
      F1 == IF Result.status_code = "EVMC_SUCCESS"
            THEN push(popN(Frame, 1), 1) ELSE Frame
      CopySize == Min(uint256ToUint64(OutputSize), Len(Result.output_data))
      F2 == IF CopySize > 0
            THEN [F1 EXCEPT !.Memory =
                    MemWrite(@, uint256ToUint64(OutputOffset),
                             SubSeq(Result.output_data, 1, CopySize))]
            ELSE F1
      GasUsed == NewMsg.gas - Result.gas_left
      F3 == chargeGas(F2, ToUint64(GasUsed)).frame
      F4 == [F3 EXCEPT !.GasRefund = @ + Result.gas_refund]
  IN Outcome(F4, Result.status_code, Result.output_data, Ev, "called")

\* Lines 1233-1280: the sub-message, the gas forwarded, the extra cost.
CallForward(Frame, Events, OpCode, NeedValue, Gas, Dest, Value, InputOffset, InputSize, OutputOffset, OutputSize, H) ==
  LET Msg0 == CallNewMsg(Frame, OpCode, Gas, Dest, Value, InputOffset, InputSize)
      Capped == Frame.Rev >= EVMC_TANGERINE_WHISTLE
      Msg1 == IF Capped
              THEN [Msg0 EXCEPT !.gas = Min(@, Frame.gas - (Frame.gas \div 64))]
              ELSE Msg0
      \* history: the request, the gas it is capped against, the gas forwarded
      Ev0 == Append(Events, [fn |-> "forward", requested |-> Gas,
                             gas |-> Frame.gas, forwarded |-> Msg1.gas])
  IN IF ~Capped /\ Msg0.gas > Frame.gas
     THEN Outcome(Frame, "EVMC_OUT_OF_GAS", <<>>, Ev0, "oog_forward")
     ELSE IF OpCode = OP_CALL /\ isStaticMode(Frame)
     THEN Outcome(Frame, "EVMC_STATIC_MODE_VIOLATION", <<>>, Ev0, "static")
     ELSE
     LET Ev1 == IF OpCode = OP_CALL
                THEN Append(Ev0, [fn |-> "account_exists", addr |-> Dest,
                                  res |-> H.exists])
                ELSE Ev0
         Charged == chargeGas(Frame, CallCost(NeedValue, OpCode, H.exists))
     IN IF ~Charged.ok
        THEN Outcome(push(Frame, 0), "EVMC_OUT_OF_GAS", <<>>, Ev1, "oog_cost")
        ELSE CallDispatch(Charged.frame, Ev1,
                          [Msg1 EXCEPT !.gas = @ + CallStipend(NeedValue)],
                          OutputOffset, OutputSize, H)

CallExec(Frame0, ReturnData0, OpCode, H) ==
  LET NeedValue == OpCode = OP_CALL \/ OpCode = OP_CALLCODE
      N == IF NeedValue THEN 7 ELSE 6
  IN IF stackHeight(Frame0) < N
     THEN Raise(Frame0, ReturnData0, <<>>, "UnexpectedNumArgs")
     ELSE
     LET K == IF NeedValue THEN 3 ELSE 2
         Gas == peek(Frame0, 0)
         Dest == trunc_address(peek(Frame0, 1))
         Value == IF NeedValue THEN peek(Frame0, 2) ELSE 0
         InputOffset == peek(Frame0, K)
         InputSize == peek(Frame0, K + 1)
         OutputOffset == peek(Frame0, K + 2)
         OutputSize == peek(Frame0, K + 3)
         \* Assume failure
         F0 == push(popN(Frame0, N), 0)
         \* EIP-2929
         Berlin == F0.Rev >= EVMC_BERLIN
         Ev1 == IF Berlin
                THEN <<[fn |-> "access_account", addr |-> Dest, res |-> H.access]>>
                ELSE <<>>
         C1 == chargeGas(F0, IF Berlin /\ H.access = "COLD"
                             THEN COLD_ACCOUNT_ACCESS_COST
                             ELSE WARM_ACCOUNT_ACCESS_COST)
         F1 == C1.frame
         Ev2 == IF NeedValue
                THEN Append(Ev1, [fn |-> "get_balance", addr |-> F1.recipient,
                                  res |-> H.balance])
                ELSE Ev1
         M1 == expandMemoryAndChargeGas(
                 F1, uint256ToUint64(Add256(InputOffset, InputSize)))
         M2 == expandMemoryAndChargeGas(
                 M1.frame, uint256ToUint64(Add256(OutputOffset, OutputSize)))
     IN IF ~C1.ok
        THEN Outcome(F0, "EVMC_OUT_OF_GAS", <<>>, Ev1, "oog_access")
        ELSE IF DepthExceeded(F1)
        THEN Outcome(F1, "EVMC_SUCCESS", <<>>, Ev1, "light_depth")
        ELSE IF NeedValue /\ H.balance < Value
        THEN Outcome(F1, "EVMC_SUCCESS", <<>>, Ev2, "light_balance")
        ELSE IF M1.res \notin {"ok", "oog"}
        THEN Raise(M1.frame, <<>>, Ev2, M1.res)
        ELSE IF M1.res = "oog"
        THEN Outcome(M1.frame, "EVMC_OUT_OF_GAS", <<>>, Ev2, "oog_memory")
        ELSE IF M2.res \notin {"ok", "oog"}
        THEN Raise(M2.frame, <<>>, Ev2, M2.res)
        ELSE IF M2.res = "oog"
        THEN Outcome(M2.frame, "EVMC_OUT_OF_GAS", <<>>, Ev2, "oog_memory")
        ELSE CallForward(M2.frame, Ev2, OpCode, NeedValue, Gas, Dest, Value,
                         InputOffset, InputSize, OutputOffset, OutputSize, H)

---------------------------------------------------------------------------
(* CreateHandler::doExecute: CREATE, CREATE2 *)

\* Lines 1114-1118: the cost of the initcode's words.
InitCodeCost(Rev, OpCode, CodeSizeVal) ==
  LET InitCodeWordCost == 6 * (IF OpCode = OP_CREATE2 THEN 1 ELSE 0)
                          + 2 * (IF Rev >= EVMC_SHANGHAI THEN 1 ELSE 0)
      InitCodeSize == uint256ToUint64(Add256(CodeSizeVal, 31) \div 32)
  IN (InitCodeWordCost * InitCodeSize) % Two64

\* The evmc_message built at lines 1141-1154.
CreateNewMsg(Frame, CodeOffset, CodeSizeVal, Value, Salt) ==
  [kind |-> EVMC_CREATE,
   flags |-> 0,
   depth |-> Frame.depth + 1,
   gas |-> IF Frame.Rev >= EVMC_TANGERINE_WHISTLE
           THEN Frame.gas - (Frame.gas \div 64) ELSE Frame.gas,
   recipient |-> 0,
   sender |-> Frame.sender,
   input_offset |-> uint256ToUint64(CodeOffset),
   input_size |-> uint256ToUint64(CodeSizeVal),
   value |-> Value,
   code_address |-> 0,
   create2_salt |-> Salt]

\* A dispatch that leaves the assumed 0 on the stack whatever the result.
CreateDispatch_KeepsZero(Frame, Events, NewMsg, H) ==
  LET Left == GasLeft(H.result.left, NewMsg.gas)
      Result == [status_code |-> H.result.status_code, gas_left |-> Left,
                 gas_refund |-> H.result.gas_refund,
                 output_data |-> H.result.output_data,
                 create_address |-> H.result.create_address]
      Ev == Append(Events, [fn |-> "call", msg |-> NewMsg, result |-> Result,
                            gas_before |-> Frame.gas])
      F1 == chargeGas(Frame, ToUint64(NewMsg.gas - Result.gas_left)).frame
      F2 == [F1 EXCEPT !.GasRefund = @ + Result.gas_refund]
  IN Outcome(F2, Result.status_code, Result.output_data, Ev, "called")

\* Lines 1156-1167: host.call and what follows it.
CreateDispatch(Frame, Events, NewMsg, H) ==
  LET Left == GasLeft(H.result.left, NewMsg.gas)
      Result == [status_code |-> H.result.status_code, gas_left |-> Left,
                 gas_refund |-> H.result.gas_refund,
                 output_data |-> H.result.output_data,
                 create_address |-> H.result.create_address]
      Ev == Append(Events, [fn |-> "call", msg |-> NewMsg, result |-> Result,
                            gas_before |-> Frame.gas])
      F1 == chargeGas(Frame, ToUint64(NewMsg.gas - Result.gas_left)).frame
      F2 == [F1 EXCEPT !.GasRefund = @ + Result.gas_refund]
      F3 == IF Result.status_code = "EVMC_SUCCESS"
            THEN push(popN(F2, 1), Result.create_address) ELSE F2
  IN Outcome(F3, Result.status_code, Result.output_data, Ev, "called")

CreateExec(Frame0, ReturnData0, OpCode, H) ==
  LET N == IF OpCode = OP_CREATE THEN 3 ELSE 4
  IN IF stackHeight(Frame0) < N
     THEN Raise(Frame0, ReturnData0, <<>>, "UnexpectedNumArgs")
     ELSE
     LET Value == peek(Frame0, 0)
         CodeOffset == peek(Frame0, 1)
         CodeSizeVal == peek(Frame0, 2)
         Salt == IF OpCode = OP_CREATE2 THEN peek(Frame0, 3) ELSE 0
         \* Assume failure
         F0 == push(popN(Frame0, N), 0)
         C1 == chargeGas(F0, InitCodeCost(F0.Rev, OpCode, CodeSizeVal))
         F1 == C1.frame
         Ev1 == <<[fn |-> "get_balance", addr |-> F1.recipient, res |-> H.balance]>>
         M1 == expandMemoryAndChargeGas(
                 F1, uint256ToUint64(Add256(CodeOffset, CodeSizeVal)))
     IN IF isStaticMode(F0)
        THEN Outcome(F0, "EVMC_STATIC_MODE_VIOLATION", <<>>, <<>>, "static")
        ELSE IF F0.Rev >= EVMC_SHANGHAI /\ CodeSizeVal > MAX_SIZE_OF_INITCODE
        THEN Outcome(F0, "EVMC_OUT_OF_GAS", <<>>, <<>>, "oog_initcode_size")
        ELSE IF ~C1.ok
        THEN Outcome(F0, "EVMC_OUT_OF_GAS", <<>>, <<>>, "oog_initcode")
        ELSE IF DepthExceeded(F1)
        THEN Outcome(F1, "EVMC_SUCCESS", <<>>, <<>>, "light_depth")
        ELSE IF H.balance < Value
        THEN Outcome(F1, "EVMC_SUCCESS", <<>>, Ev1, "light_balance")
        ELSE IF M1.res \notin {"ok", "oog"}
        THEN Raise(M1.frame, <<>>, Ev1, M1.res)
        ELSE IF M1.res = "oog"
        THEN Outcome(M1.frame, "EVMC_OUT_OF_GAS", <<>>, Ev1, "oog_memory")
        ELSE CreateDispatch(M1.frame, Ev1,
                            CreateNewMsg(M1.frame, CodeOffset, CodeSizeVal, Value, Salt),
                            H)

---------------------------------------------------------------------------
(* Storage: SSTORE and TSTORE *)

StorageStatuses ==
  {"EVMC_STORAGE_ASSIGNED", "EVMC_STORAGE_ADDED", "EVMC_STORAGE_DELETED",
   "EVMC_STORAGE_MODIFIED"}

\* SstoreCosts[Rev][Status]: (warm cost, refund).
SstoreCosts(Rev, Status) ==
  IF Rev >= EVMC_BERLIN
  THEN CASE Status = "EVMC_STORAGE_ADDED" -> <<20000, 0>>
         [] Status = "EVMC_STORAGE_DELETED" ->
              <<2900, IF Rev >= EVMC_SHANGHAI THEN 4800 ELSE 15000>>
         [] Status = "EVMC_STORAGE_MODIFIED" -> <<2900, 0>>
         [] OTHER -> <<100, 0>>
  ELSE CASE Status = "EVMC_STORAGE_ADDED" -> <<20000, 0>>
         [] Status = "EVMC_STORAGE_DELETED" -> <<5000, 15000>>
         [] OTHER -> <<5000, 0>>

\* A gas test that lets every SSTORE through.
SStoreShort_Never(Gas, GasCost) == FALSE

\* Frame->Msg->gas < GasCost at line 753.
SStoreShort(Gas, GasCost) == Gas < GasCost

\* A static-mode test that is never met.
StaticGuard_Off(Frame) == FALSE

\* EVM_REQUIRE(!Frame->isStaticMode(), ...) / if (Frame->isStaticMode()):
\* the guard that opens SSTORE, TSTORE, LOGn and SELFDESTRUCT.
StaticGuard(Frame) == isStaticMode(Frame)

SStoreExec(Frame, ReturnData, H) ==
  IF StaticGuard(Frame)
  THEN Raise(Frame, ReturnData, <<>>, "EVMStaticModeViolation")
  ELSE IF stackHeight(Frame) < 2
  THEN Raise(Frame, ReturnData, <<>>, "UnexpectedNumArgs")
  ELSE
  LET Key == peek(Frame, 0)
      Value == peek(Frame, 1)
      F0 == popN(Frame, 2)
      Ev1 == IF F0.Rev >= EVMC_BERLIN
             THEN <<[fn |-> "access_storage", key |-> Key, res |-> H.access]>>
             ELSE <<>>
      GasCostCold == IF F0.Rev >= EVMC_BERLIN /\ H.access = "COLD"
                     THEN COLD_SLOAD_COST ELSE 0
      Status == H.sstatus
      Ev2 == Append(Ev1, [fn |-> "set_storage", key |-> Key, value |-> Value,
                          res |-> Status])
      GasCostWarm == SstoreCosts(F0.Rev, Status)[1]
      GasReFund == SstoreCosts(F0.Rev, Status)[2]
      GasCost == GasCostCold + GasCostWarm
  IN IF SStoreShort(F0.gas, GasCost)
     THEN Outcome(F0, "EVMC_OUT_OF_GAS", ReturnData, Ev2, "oog")
     ELSE Outcome([F0 EXCEPT !.gas = @ - GasCost, !.GasRefund = @ + GasReFund],
                  "unchanged", ReturnData, Ev2, "done")

TStoreExec(Frame, ReturnData) ==
  IF StaticGuard(Frame)
  THEN Raise(Frame, ReturnData, <<>>, "EVMStaticModeViolation")
  ELSE IF stackHeight(Frame) < 2
  THEN Raise(Frame, ReturnData, <<>>, "UnexpectedNumArgs")
  ELSE Outcome(popN(Frame, 2), "unchanged", ReturnData,
               <<[fn |-> "set_transient_storage", key |-> peek(Frame, 0),
                  value |-> peek(Frame, 1)]>>, "done")

---------------------------------------------------------------------------
(* LogHandler::doExecute: LOG0 .. LOG4 *)

\* Reading Size bytes at Memory.data() + Offset is defined only inside the
\* vector.
InMemory(Frame, Offset, Size) == Offset + Size <= Len(Frame.Memory)

\* U is what a read outside the vector does: "crash", or "garbage" read.
LogExec(Frame, ReturnData, OpCode, U) ==
  LET NumTopics == OpCode - OP_LOG0
  IN IF StaticGuard(Frame)
     THEN Outcome(Frame, "EVMC_STATIC_MODE_VIOLATION", ReturnData, <<>>, "static")
     ELSE IF stackHeight(Frame) < NumTopics + 2
     THEN Raise(Frame, ReturnData, <<>>, "UnexpectedNumArgs")
     ELSE
     LET Offset == uint256ToUint64(peek(Frame, 0))
         Size == uint256ToUint64(peek(Frame, 1))
         ReqSize == (Offset + Size) % Two64
         M == expandMemoryAndChargeGas(popN(Frame, 2), ReqSize)
         LogDataCost == (8 * Size) % Two64
         C == chargeGas(M.frame, LogDataCost)
         Topics == [I \in 1..NumTopics |-> peek(C.frame, I - 1)]
         F2 == popN(C.frame, NumTopics)
         Data == IF InMemory(F2, Offset, Size)
                 THEN Slice(F2.Memory, Offset, Size)
                 ELSE [I \in 1..Min(Size, 4) |-> 255]
         Ev == <<[fn |-> "emit_log", addr |-> F2.recipient, data |-> Data,
                  size |-> Size, topics |-> Topics]>>
     IN IF M.res \notin {"ok", "oog"}
        THEN Raise(M.frame, ReturnData, <<>>, M.res)
        ELSE IF M.res = "oog"
        THEN Outcome(M.frame, "EVMC_OUT_OF_GAS", ReturnData, <<>>, "oog_memory")
        ELSE IF ~C.ok
        THEN Outcome(C.frame, "EVMC_OUT_OF_GAS", ReturnData, <<>>, "oog_data")
        ELSE IF ~InMemory(F2, Offset, Size) /\ U = "crash"
        THEN Outcome(F2, "CRASHED", ReturnData, <<>>, "out_of_bounds_read")
        ELSE Outcome(F2, "unchanged", ReturnData, Ev,
                     IF InMemory(F2, Offset, Size) THEN "done"
                     ELSE "out_of_bounds_read")

---------------------------------------------------------------------------
(* SelfDestructHandler::doExecute *)

SelfDestructExec(Frame, ReturnData, H) ==
  IF StaticGuard(Frame)
  THEN Outcome(Frame, "EVMC_STATIC_MODE_VIOLATION", ReturnData, <<>>, "static")
  ELSE IF stackHeight(Frame) < 1
  THEN Raise(Frame, ReturnData, <<>>, "UnexpectedNumArgs")
  ELSE
  LET Beneficiary == trunc_address(peek(Frame, 0))
      F0 == popN(Frame, 1)
      Ev1 == IF F0.Rev >= EVMC_SPURIOUS_DRAGON
             THEN <<[fn |-> "account_exists", addr |-> Beneficiary,
                     res |-> H.exists]>>
             ELSE <<>>
      C1 == IF F0.Rev >= EVMC_SPURIOUS_DRAGON /\ ~H.exists
            THEN chargeGas(F0, ACCOUNT_CREATION_COST)
            ELSE [ok |-> TRUE, frame |-> F0]
      Ev2 == IF F0.Rev >= EVMC_BERLIN
             THEN Append(Ev1, [fn |-> "access_account", addr |-> Beneficiary,
                               res |-> H.access])
             ELSE Ev1
      C2 == IF F0.Rev >= EVMC_BERLIN /\ H.access = "COLD"
            THEN chargeGas(C1.frame, ADDITIONAL_COLD_ACCOUNT_ACCESS_COST)
            ELSE [ok |-> TRUE, frame |-> C1.frame]
      Ev3 == Append(Ev2, [fn |-> "selfdestruct", addr |-> F0.recipient,
                          beneficiary |-> Beneficiary])
  IN IF ~C1.ok
     THEN Outcome(F0, "EVMC_OUT_OF_GAS", ReturnData, Ev1, "oog_creation")
     ELSE IF ~C2.ok
     THEN Outcome(C1.frame, "EVMC_OUT_OF_GAS", ReturnData, Ev2, "oog_access")
     ELSE Unwound(C2.frame, "unchanged", ReturnData, Ev3, "done")

---------------------------------------------------------------------------
(* Keccak256Handler, ReturnHandler, RevertHandler *)

RECURSIVE SumRange(_, _, _)
SumRange(Bytes, Lo, Hi) ==
  IF Lo > Hi THEN 0
  ELSE IF Lo = Hi THEN (Bytes[Lo] * (1 + (Lo % 7))) % 65521
  ELSE LET Mid == (Lo + Hi) \div 2
       IN (SumRange(Bytes, Lo, Mid) + SumRange(Bytes, Mid + 1, Hi)) % 65521

SumBytes(Bytes) == SumRange(Bytes, 1, Len(Bytes))

\* host::evm::crypto::keccak256, by a stand-in digest of the same input.
keccak256(Bytes) == (1 + Len(Bytes) + 3 * SumBytes(Bytes)) % Two256

Keccak256Exec(Frame, ReturnData) ==
  IF stackHeight(Frame) < 2
  THEN Raise(Frame, ReturnData, <<>>, "UnexpectedNumArgs")
  ELSE
  LET MemOffset == uint256ToUint64(peek(Frame, 0))
      DataLength == uint256ToUint64(peek(Frame, 1))
      M == checkMemoryExpandAndChargeGas64(popN(Frame, 2), MemOffset, DataLength)
  IN IF M.res \notin {"ok", "oog"}
     THEN Raise(M.frame, ReturnData, <<>>, M.res)
     ELSE IF M.res = "oog"
     THEN Outcome(M.frame, "EVMC_OUT_OF_GAS", ReturnData, <<>>, "oog_memory")
     ELSE Outcome(push(M.frame,
                       keccak256(Slice(M.frame.Memory, MemOffset, DataLength))),
                  "unchanged", ReturnData, <<>>, "done")

ReturnExec(Frame, ReturnData) ==
  IF stackHeight(Frame) < 2
  THEN Raise(Frame, ReturnData, <<>>, "UnexpectedNumArgs")
  ELSE
  LET Offset == uint256ToUint64(peek(Frame, 0))
      Size == uint256ToUint64(peek(Frame, 1))
      M == checkMemoryExpandAndChargeGas64(popN(Frame, 2), Offset, Size)
  IN IF M.res \notin {"ok", "oog"}
     THEN Raise(M.frame, ReturnData, <<>>, M.res)
     ELSE IF M.res = "oog"
     THEN Outcome(M.frame, "EVMC_OUT_OF_GAS", ReturnData, <<>>, "oog_memory")
     ELSE Unwound(M.frame, "EVMC_SUCCESS", Slice(M.frame.Memory, Offset, Size),
                  <<[fn |-> "Memory.begin", first |-> Offset, last |-> Offset + Size],
                    [fn |-> "setReturnData"],
                    [fn |-> "setStatus", status |-> "EVMC_SUCCESS"]>>, "done")

RevertExec(Frame, ReturnData) ==
  IF stackHeight(Frame) < 2
  THEN Raise(Frame, ReturnData, <<>>, "UnexpectedNumArgs")
  ELSE
  LET Offset == uint256ToUint64(peek(Frame, 0))
      Size == uint256ToUint64(peek(Frame, 1))
      M == checkMemoryExpandAndChargeGas64(popN(Frame, 2), Offset, Size)
  IN IF M.res \notin {"ok", "oog"}
     THEN Raise(M.frame, ReturnData, <<>>, M.res)
     ELSE IF M.res = "oog"
     THEN Outcome(M.frame, "EVMC_OUT_OF_GAS", ReturnData, <<>>, "oog_memory")
     ELSE Unwound(M.frame, "EVMC_REVERT", Slice(M.frame.Memory, Offset, Size),
                  <<[fn |-> "Memory.begin", first |-> Offset, last |-> Offset + Size],
                    [fn |-> "setStatus", status |-> "EVMC_REVERT"],
                    [fn |-> "setReturnData"]>>, "done")

---------------------------------------------------------------------------
(* The copies into memory *)

\* The module's code and the code of the account EXTCODECOPY reads.
Code == <<96, 5, 86, 91, 0>>
ExtCode == <<1, 2, 3>>

\* What a copy handler leaves once its operands are popped: the bytes Bytes
\* written at DestOffset if memory and the copy's words could be paid.
CopyOutcome(M, C, ReturnData, Events, DestOffset, Bytes) ==
  IF M.res \notin {"ok", "oog"}
  THEN Raise(M.frame, ReturnData, <<>>, M.res)
  ELSE IF M.res = "oog"
  THEN Outcome(M.frame, "EVMC_OUT_OF_GAS", ReturnData, <<>>, "oog_memory")
  ELSE IF ~C.ok
  THEN Outcome(C.frame, "EVMC_OUT_OF_GAS", ReturnData, <<>>, "oog_copy")
  ELSE Outcome([C.frame EXCEPT !.Memory = MemWrite(@, DestOffset, Bytes)],
               "unchanged", ReturnData, Events, "done")

CallDataCopyExec(Frame, ReturnData) ==
  IF stackHeight(Frame) < 3
  THEN Raise(Frame, ReturnData, <<>>, "UnexpectedNumArgs")
  ELSE
  LET DestOffsetVal == peek(Frame, 0)
      OffsetVal == peek(Frame, 1)
      SizeVal == peek(Frame, 2)
      M == checkMemoryExpandAndChargeGas256(popN(Frame, 3), DestOffsetVal, SizeVal)
      DestOffset == uint256ToUint64(DestOffsetVal)
      Offset == uint256ToUint64(OffsetVal)
      Size == uint256ToUint64(SizeVal)
      input_size == Len(Frame.input)
      Src == IF input_size < Offset THEN input_size ELSE Offset
      CopySize == Min(Size, input_size - Src)
      C == copyCodeAndChargeGas(M.frame, Size)
  IN CopyOutcome(M, C, ReturnData, <<>>, DestOffset,
                 Slice(Frame.input, Src, CopySize) \o Zeros(Size - CopySize))

CodeCopyExec(Frame, ReturnData) ==
  IF stackHeight(Frame) < 3
  THEN Raise(Frame, ReturnData, <<>>, "UnexpectedNumArgs")
  ELSE
  LET CodeSize == Len(Code)
      DestOffsetVal == peek(Frame, 0)
      OffsetVal == peek(Frame, 1)
      SizeVal == peek(Frame, 2)
      M == checkMemoryExpandAndChargeGas256(popN(Frame, 3), DestOffsetVal, SizeVal)
      DestOffset == uint256ToUint64(DestOffsetVal)
      Offset == uint256ToUint64(OffsetVal)
      Size == uint256ToUint64(SizeVal)
      C == copyCodeAndChargeGas(M.frame, Size)
      CopySize == Min(Size, CodeSize - Offset)
  IN CopyOutcome(M, C, ReturnData, <<>>, DestOffset,
                 IF Offset < CodeSize
                 THEN Slice(Code, Offset, CopySize) \o Zeros(Size - CopySize)
                 ELSE Zeros(Size))

ReturnDataCopyExec(Frame, ReturnData) ==
  IF stackHeight(Frame) < 3
  THEN Raise(Frame, ReturnData, <<>>, "UnexpectedNumArgs")
  ELSE
  LET DestOffsetVal == peek(Frame, 0)
      OffsetVal == peek(Frame, 1)
      SizeVal == peek(Frame, 2)
      M == checkMemoryExpandAndChargeGas256(popN(Frame, 3), DestOffsetVal, SizeVal)
      DestOffset == uint256ToUint64(DestOffsetVal)
      Offset == uint256ToUint64(OffsetVal)
      Size == uint256ToUint64(SizeVal)
      C == copyCodeAndChargeGas(M.frame, Size)
      CopySize == Min(Size, Len(ReturnData) - Offset)
  IN CopyOutcome(M, C, ReturnData, <<>>, DestOffset,
                 IF Offset >= Len(ReturnData)
                 THEN Zeros(Size)
                 ELSE Slice(ReturnData, Offset, CopySize) \o Zeros(Size - CopySize))

MCopyExec(Frame, ReturnData) ==
  IF stackHeight(Frame) < 3
  THEN Raise(Frame, ReturnData, <<>>, "UnexpectedNumArgs")
  ELSE
  LET DestOffsetVal == peek(Frame, 0)
      OffsetVal == peek(Frame, 1)
      SizeVal == peek(Frame, 2)
      M == checkMemoryExpandAndChargeGas256(
             popN(Frame, 3),
             IF DestOffsetVal < OffsetVal THEN OffsetVal ELSE DestOffsetVal,
             SizeVal)
      DestOffset == uint256ToUint64(DestOffsetVal)
      Offset == uint256ToUint64(OffsetVal)
      Size == uint256ToUint64(SizeVal)
      C == copyCodeAndChargeGas(M.frame, Size)
  IN CopyOutcome(M, C, ReturnData, <<>>, DestOffset,
                 Slice(M.frame.Memory, Offset, Size))

ExtCodeCopyExec(Frame, ReturnData, H) ==
  IF stackHeight(Frame) < 4
  THEN Raise(Frame, ReturnData, <<>>, "UnexpectedNumArgs")
  ELSE
  LET Addr == trunc_address(peek(Frame, 0))
      DestOffsetVal == peek(Frame, 1)
      OffsetVal == peek(Frame, 2)
      SizeVal == peek(Frame, 3)
      M == checkMemoryExpandAndChargeGas256(popN(Frame, 4), DestOffsetVal, SizeVal)
      DestOffset == uint256ToUint64(DestOffsetVal)
      Offset == uint256ToUint64(OffsetVal)
      Size == uint256ToUint64(SizeVal)
      C == copyCodeAndChargeGas(M.frame, Size)
      Ev == IF Frame.Rev >= EVMC_BERLIN
            THEN <<[fn |-> "access_account", addr |-> Addr, res |-> H.access]>>
            ELSE <<>>
      Cold == Frame.Rev >= EVMC_BERLIN /\ H.access = "COLD"
      CodeSize == Len(ExtCode)
      CopySize == Min(Size, CodeSize - Offset)
      CopiedSize == CopySize
      F3 == IF C.ok /\ Cold
            THEN [C.frame EXCEPT !.gas = @ - ADDITIONAL_COLD_ACCOUNT_ACCESS_COST]
            ELSE C.frame
  IN IF M.res = "ok" /\ C.ok /\ Cold
        /\ C.frame.gas < ADDITIONAL_COLD_ACCOUNT_ACCESS_COST
     THEN Outcome(C.frame, "EVMC_OUT_OF_GAS", ReturnData, Ev, "oog_access")
     ELSE CopyOutcome(M, [ok |-> C.ok, frame |-> F3], ReturnData, Ev, DestOffset,
                      IF Offset >= CodeSize
                      THEN Zeros(Size)
                      ELSE Slice(ExtCode, Offset, CopiedSize)
                           \o Zeros(Size - CopiedSize))

---------------------------------------------------------------------------
(* MStoreHandler, MStore8Handler, MLoadHandler, MSizeHandler *)

\* Byte K of a value, 0 the least significant; a value has no bits at or
\* above byte 4 at the widths of this model.
ByteOf(Value, K) == IF K >= 4 THEN 0 ELSE (Value \div (256 ^ K)) % 256

\* intx::be::store(ValueBytes, Value): 32 bytes, most significant first.
StoreWord(Value) == [I \in 1..32 |-> ByteOf(Value, 32 - I)]

\* intx::be::load of the 32 bytes at Off, kept to the width of a uint256.
LoadWord(Buf, Off) ==
  (Buf[Off + 32] + 256 * Buf[Off + 31] + 65536 * Buf[Off + 30]
   + 16777216 * (Buf[Off + 29] % (Two256 \div 16777216))) % Two256

\* A handler that ends at a failed checkMemoryExpandAndChargeGas.
MemoryRefused(M, ReturnData) ==
  IF M.res = "oog"
  THEN Outcome(M.frame, "EVMC_OUT_OF_GAS", ReturnData, <<>>, "oog_memory")
  ELSE Raise(M.frame, ReturnData, <<>>, M.res)

MStoreExec(Frame, ReturnData) ==
  IF stackHeight(Frame) < 2
  THEN Raise(Frame, ReturnData, <<>>, "UnexpectedNumArgs")
  ELSE
  LET Offset == uint256ToUint64(peek(Frame, 0))
      Value == peek(Frame, 1)
      M == checkMemoryExpandAndChargeGas64(popN(Frame, 2), Offset, 32)
  IN IF M.res # "ok"
     THEN MemoryRefused(M, ReturnData)
     ELSE Outcome([M.frame EXCEPT !.Memory = MemWrite(@, Offset, StoreWord(Value))],
                  "unchanged", ReturnData,
                  <<[fn |-> "memcpy", first |-> Offset, last |-> Offset + 31]>>,
                  "done")

MStore8Exec(Frame, ReturnData) ==
  IF stackHeight(Frame) < 2
  THEN Raise(Frame, ReturnData, <<>>, "UnexpectedNumArgs")
  ELSE
  LET Offset == uint256ToUint64(peek(Frame, 0))
      Value == peek(Frame, 1)
      M == checkMemoryExpandAndChargeGas64(popN(Frame, 2), Offset, 1)
  IN IF M.res # "ok"
     THEN MemoryRefused(M, ReturnData)
     ELSE Outcome([M.frame EXCEPT !.Memory = MemWrite(@, Offset, <<Value % 256>>)],
                  "unchanged", ReturnData,
                  <<[fn |-> "Memory[]", first |-> Offset, last |-> Offset]>>,
                  "done")

MLoadExec(Frame, ReturnData) ==
  IF stackHeight(Frame) < 1
  THEN Raise(Frame, ReturnData, <<>>, "UnexpectedNumArgs")
  ELSE
  LET Offset == uint256ToUint64(peek(Frame, 0))
      M == checkMemoryExpandAndChargeGas64(popN(Frame, 1), Offset, 32)
  IN IF M.res # "ok"
     THEN MemoryRefused(M, ReturnData)
     ELSE Outcome(push(M.frame, LoadWord(M.frame.Memory, Offset)),
                  "unchanged", ReturnData,
                  <<[fn |-> "memcpy", first |-> Offset, last |-> Offset + 31]>>,
                  "done")

\* intx::uint256 MemSize = Frame->Memory.size(); Frame->push(MemSize).
MSizeExec(Frame, ReturnData) ==
  IF pushFaults(Frame)
  THEN Raise(Frame, ReturnData, <<>>, "EVMStackOverflow")
  ELSE Outcome(push(Frame, Len(Frame.Memory)), "unchanged", ReturnData, <<>>,
               "done")

---------------------------------------------------------------------------
(* BalanceHandler, ExtCodeSizeHandler, ExtCodeHashHandler *)

\* The access_account call made on Berlin and later.
AccessEvent(Frame, Addr, H) ==
  IF Frame.Rev >= EVMC_BERLIN
  THEN <<[fn |-> "access_account", addr |-> Addr, res |-> H.access]>>
  ELSE <<>>

\* A gas test that lets every cold access through.
ColdShort_Never(Gas) == FALSE

\* Frame->Msg->gas < ADDITIONAL_COLD_ACCOUNT_ACCESS_COST at lines 499, 626.
ColdShort(Gas) == Gas < ADDITIONAL_COLD_ACCOUNT_ACCESS_COST

BalanceExec(Frame, ReturnData, H) ==
  IF stackHeight(Frame) < 1
  THEN Raise(Frame, ReturnData, <<>>, "UnexpectedNumArgs")
  ELSE
  LET Addr == trunc_address(peek(Frame, 0))
      F0 == popN(Frame, 1)
      Cold == F0.Rev >= EVMC_BERLIN /\ H.access = "COLD"
      C == chargeGas(F0, ADDITIONAL_COLD_ACCOUNT_ACCESS_COST)
      F1 == IF Cold THEN C.frame ELSE F0
      Ev == AccessEvent(F0, Addr, H)
  IN IF Cold /\ ~C.ok
     THEN Outcome(F0, "EVMC_OUT_OF_GAS", ReturnData, Ev, "oog_access")
     ELSE Outcome(push(F1, H.balance), "unchanged", ReturnData,
                  Append(Ev, [fn |-> "get_balance", addr |-> Addr,
                              res |-> H.balance]), "done")

\* Lines 497-504 and 624-631: the cold surcharge of EXTCODESIZE and
\* EXTCODEHASH, then the push of what the Host answers.
ExtCodeQuery(Frame, ReturnData, H, Fn, Answer) ==
  IF stackHeight(Frame) < 1
  THEN Raise(Frame, ReturnData, <<>>, "UnexpectedNumArgs")
  ELSE
  LET Addr == trunc_address(peek(Frame, 0))
      F0 == popN(Frame, 1)
      Cold == F0.Rev >= EVMC_BERLIN /\ H.access = "COLD"
      F1 == IF Cold
            THEN [F0 EXCEPT !.gas = @ - ADDITIONAL_COLD_ACCOUNT_ACCESS_COST]
            ELSE F0
      Ev == AccessEvent(F0, Addr, H)
  IN IF Cold /\ ColdShort(F0.gas)
     THEN Outcome(F0, "EVMC_OUT_OF_GAS", ReturnData, Ev, "oog_access")
     ELSE Outcome(push(F1, Answer), "unchanged", ReturnData,
                  Append(Ev, [fn |-> Fn, addr |-> Addr, res |-> Answer]), "done")

ExtCodeSizeExec(Frame, ReturnData, H) ==
  ExtCodeQuery(Frame, ReturnData, H, "get_code_size", Len(ExtCode))

ExtCodeHashExec(Frame, ReturnData, H) ==
  ExtCodeQuery(Frame, ReturnData, H, "get_code_hash", keccak256(ExtCode))

---------------------------------------------------------------------------
(* JumpHandler, JumpIHandler *)

\* Frame->Pc = Dest; Context->IsJump = true.
Jumped(Frame, ReturnData, Dest) ==
  [Outcome([Frame EXCEPT !.Pc = Dest], "unchanged", ReturnData, <<>>, "jumped")
     EXCEPT !.jump = TRUE]

\* The two EVM_REQUIREs on the destination, then the jump.
JumpTo(Frame, ReturnData, Dest) ==
  IF ~(Dest < Len(Code))
  THEN Raise(Frame, ReturnData, <<>>, "EVMBadJumpDestination")
  ELSE IF ~(Code[Dest + 1] = OP_JUMPDEST)
  THEN Raise(Frame, ReturnData, <<>>, "EVMBadJumpDestination")
  ELSE Jumped(Frame, ReturnData, Dest)

JumpExec(Frame, ReturnData) ==
  IF stackHeight(Frame) < 1
  THEN Raise(Frame, ReturnData, <<>>, "UnexpectedNumArgs")
  ELSE JumpTo(popN(Frame, 1), ReturnData, uint256ToUint64(peek(Frame, 0)))

JumpIExec(Frame, ReturnData) ==
  IF stackHeight(Frame) < 2
  THEN Raise(Frame, ReturnData, <<>>, "UnexpectedNumArgs")
  ELSE
  LET Dest == uint256ToUint64(peek(Frame, 0))
      Cond == peek(Frame, 1)
  IN IF Cond = 0
     THEN Outcome(popN(Frame, 2), "unchanged", ReturnData, <<>>, "not_taken")
     ELSE JumpTo(popN(Frame, 2), ReturnData, Dest)

---------------------------------------------------------------------------
(* SignExtendHandler, PushHandler, DupHandler, SwapHandler *)

\* intx::uint256(1) << N: 0 once the bit leaves the word.
Shl1(N) == IF N >= W64 + 8 THEN 0 ELSE 2 ^ N

\* Bit N of Value is set.
BitSet(Value, N) == N < W64 + 8 /\ (Value \div (2 ^ N)) % 2 = 1

SignExtendExec(Frame, ReturnData) ==
  IF stackHeight(Frame) < 2
  THEN Raise(Frame, ReturnData, <<>>, "UnexpectedNumArgs")
  ELSE
  LET I == peek(Frame, 0)
      V == peek(Frame, 1)
      SignBitPosition == 8 * I + 7
      SignBit == BitSet(V, SignBitPosition)
      \* Res |= ~Mask with Mask = (1 << SignBitPosition) - 1: the bits below
      \* the sign bit kept, every bit from it on set.
      Extended == IF Shl1(SignBitPosition) = 0
                  THEN Two256 - 1
                  ELSE (V % Shl1(SignBitPosition))
                       + (Two256 - Shl1(SignBitPosition))
      Res == IF I < 31 /\ SignBit THEN Extended ELSE V
  IN Outcome(push(popN(Frame, 2), Res), "unchanged", ReturnData, <<>>, "done")

\* A load that takes the first code byte as the least significant one.
RECURSIVE LoadBytes_LittleEndian(_, _, _)
LoadBytes_LittleEndian(Buf, Off, NumBytes) ==
  IF NumBytes = 0
  THEN 0
  ELSE (Buf[Off + 1] + 256 * LoadBytes_LittleEndian(Buf, Off + 1, NumBytes - 1))
       % Two256

\* intx::be::load of the NumBytes code bytes after Pc, zero-padded on the left.
RECURSIVE LoadBytes(_, _, _)
LoadBytes(Buf, Off, NumBytes) ==
  IF NumBytes = 0
  THEN 0
  ELSE (256 * LoadBytes(Buf, Off, NumBytes - 1) + Buf[Off + NumBytes]) % Two256

PushExec(Frame, ReturnData, OpCode) ==
  LET NumBytes == OpCode - OP_PUSH1 + 1
  IN IF ~(Frame.Pc + NumBytes < Len(Code))
     THEN Raise(Frame, ReturnData, <<>>, "UnexpectedEnd")
     ELSE IF pushFaults(Frame)
     THEN Raise(Frame, ReturnData, <<>>, "EVMStackOverflow")
     ELSE Outcome([push(Frame, LoadBytes(Code, Frame.Pc + 1, NumBytes))
                     EXCEPT !.Pc = @ + NumBytes],
                  "unchanged", ReturnData,
                  <<[fn |-> "memcpy", first |-> Frame.Pc + 1,
                     last |-> Frame.Pc + NumBytes]>>, "done")

\* A height test of DUPn that asks for one entry less.
DupShort_OffByOne(Frame, N) == ~(stackHeight(Frame) >= N - 1)

\* EVM_REQUIRE(Frame->stackHeight() >= N, UnexpectedNumArgs), failing.
DupShort(Frame, N) == ~(stackHeight(Frame) >= N)

DupExec(Frame, ReturnData, OpCode) ==
  LET N == OpCode - OP_DUP1 + 1
  IN IF DupShort(Frame, N)
     THEN Raise(Frame, ReturnData, <<>>, "UnexpectedNumArgs")
     ELSE IF pushFaults(Frame)
     THEN Raise(Frame, ReturnData, <<>>, "EVMStackOverflow")
     ELSE Outcome(push(Frame, peek(Frame, N - 1)), "unchanged", ReturnData,
                  <<>>, "done")

SwapExec(Frame, ReturnData, OpCode) ==
  LET N == OpCode - OP_SWAP1 + 1
      H == stackHeight(Frame)
  IN IF ~(H >= N + 1)
     THEN Raise(Frame, ReturnData, <<>>, "UnexpectedNumArgs")
     ELSE Outcome([Frame EXCEPT !.stack[H] = peek(Frame, N),
                                !.stack[H - N] = peek(Frame, 0)],
                  "unchanged", ReturnData, <<>>, "done")

---------------------------------------------------------------------------
(* The context between two handlers *)

CurFrame == frames[Len(frames)]

\* The driver dispatches the next opcode while a frame is current and no
\* handler has ended it with a status other than success.
Running == frames # <<>> /\ status = "EVMC_SUCCESS" /\ fuel > 0

\* The handlers one behaviour runs under SpecCall.
MaxCallOps == 1

\* A frame pop that hands the remaining gas to nobody.
CreditParent_None(Rest, RemainingGas) == Rest

\* if (Context->getCurFrame() != nullptr) getCurFrame()->Msg->gas += RemainingGas
CreditParent(Rest, RemainingGas) ==
  IF Rest = <<>>
  THEN Rest
  ELSE [Rest EXCEPT ![Len(Rest)].gas = @ + RemainingGas]

\* The Host's store after the writes (of kind Fn) a handler made.
HostStore(Store, Events, Fn) ==
  LET Writes == EventsOf(Events, Fn)
  IN IF Writes = {}
     THEN Store
     ELSE LET W == Events[CHOOSE I \in Writes : TRUE]
          IN [K \in DOMAIN Store \cup {W.key} |->
                IF K = W.key THEN W.value ELSE Store[K]]

\* host.get_storage: a slot never written holds 0.
get_storage(Store, Key) == IF Key \in DOMAIN Store THEN Store[Key] ELSE 0

\* The context after a handler execution that left outcome R.
Finish(Name, OpCode, R) ==
  /\ frames' = IF R.freed
               THEN CreditParent(SubSeq(frames, 1, Len(frames) - 1), R.frame.gas)
               ELSE [frames EXCEPT ![Len(frames)] = R.frame]
  /\ status' = IF R.status = "unchanged" THEN status ELSE R.status
  /\ returnData' = R.rd
  /\ storage' = HostStore(storage, R.events, "set_storage")
  /\ tstorage' = HostStore(tstorage, R.events, "set_transient_storage")
  /\ isJump' = (isJump \/ R.jump)
  /\ last' = [name |-> Name, op |-> OpCode, pre |-> CurFrame, post |-> R.frame,
              rd0 |-> returnData, frames0 |-> Len(frames), storage0 |-> storage,
              isJump0 |-> isJump, below |-> SubSeq(frames, 1, Len(frames) - 1),
              events |-> R.events, exit |-> R.exit]
  /\ fuel' = fuel - 1

CallHandler(OpCode) ==
  /\ Running
  /\ \E H \in HostAnswers :
       Finish("Call", OpCode, CallExec(CurFrame, returnData, OpCode, H))

CreateHandler(OpCode) ==
  /\ Running
  /\ \E H \in HostAnswers :
       Finish("Create", OpCode, CreateExec(CurFrame, returnData, OpCode, H))

---------------------------------------------------------------------------
(* SpecCall: the CALL and CREATE families on the frames they can meet *)

\* A frame at the start of a handler.
NewFrame(Gas, Rev, Flags, Depth, Stack, Memory) ==
  [gas |-> Gas, Rev |-> Rev, flags |-> Flags, depth |-> Depth,
   sender |-> 10, recipient |-> 11, value |-> 3,
   input |-> <<17, 34, 51>>,
   stack |-> Stack, Memory |-> Memory, Pc |-> 0, GasRefund |-> 0,
   expansionGas |-> MemoryCost(numWords(Len(Memory)))]

NoLast ==
  [name |-> "none", op |-> 0, pre |-> <<>>, post |-> <<>>, rd0 |-> <<>>,
   frames0 |-> 0, storage0 |-> <<>>, isJump0 |-> FALSE, below |-> <<>>,
   events |-> <<>>,
   exit |-> "none"]

RevSamples == {EVMC_FRONTIER, EVMC_TANGERINE_WHISTLE, EVMC_BERLIN, EVMC_SHANGHAI}
GasSamples == {50, 3000, 40000}
DepthSamples == {0, MAXSTACK}
FlagSamples == {0, EVMC_STATIC}

\* The gas operand of a CALL: nothing, some, and two requests beyond 64 bits.
CallGasSamples == {0, 5000, Two64 + 5, Two256 - 1}
CallDestSamples == {1, TwoAddr + 2}
CallValueSamples == {0, 3}
\* <<in_off, in_size, out_off, out_size>>
CallRangeSamples ==
  { <<0, 0, 0, 0>>, <<32, 0, 0, 0>>, <<0, 32, 32, 2>>, <<0, 0, 64, 0>>,
    <<0, 32, 0, 0>> }

\* gas, to, value, in_off, in_size, out_off, out_size, the first on top.
CallStacks ==
  { <<R[4], R[3], R[2], R[1], V, D, G>> :
      R \in CallRangeSamples, V \in CallValueSamples,
      D \in CallDestSamples, G \in CallGasSamples }

\* value, code_off, code_size, salt, the first on top.
CreateStacks ==
  { <<5, S, O, V>> :
      S \in {0, 32, MAX_SIZE_OF_INITCODE + 1, Two256 - 1},
      O \in {0, 32}, V \in CallValueSamples }

InitCall ==
  /\ \E G \in GasSamples, R \in RevSamples, Fl \in FlagSamples,
        D \in DepthSamples, St \in CallStacks \cup CreateStacks :
       frames = <<NewFrame(G, R, Fl, D, St, <<>>)>>
  /\ status = "EVMC_SUCCESS"
  /\ returnData \in {<<>>, <<9>>}
  /\ isJump = FALSE
  /\ storage = [K \in {} |-> 0]
  /\ tstorage = [K \in {} |-> 0]
  /\ last = NoLast
  /\ fuel = MaxCallOps

NextCall ==
  \/ CallHandler(OP_CALL)
  \/ CallHandler(OP_CALLCODE)
  \/ CallHandler(OP_DELEGATECALL)
  \/ CallHandler(OP_STATICCALL)
  \/ CreateHandler(OP_CREATE)
  \/ CreateHandler(OP_CREATE2)

SpecCall == InitCall /\ [][NextCall]_vars

---------------------------------------------------------------------------
(* The handlers as steps of the context *)

AccessAnswers == [access : {"COLD", "WARM"}, exists : BOOLEAN]

SStoreHandler ==
  /\ Running
  /\ \E A \in {"COLD", "WARM"}, S \in StorageStatuses :
       Finish("SStore", 0,
              SStoreExec(CurFrame, returnData, [access |-> A, sstatus |-> S]))

TStoreHandler ==
  /\ Running
  /\ Finish("TStore", 0, TStoreExec(CurFrame, returnData))

LogHandler(OpCode) ==
  /\ Running
  /\ \E U \in {"crash", "garbage"} :
       Finish("Log", OpCode, LogExec(CurFrame, returnData, OpCode, U))

SelfDestructHandler ==
  /\ Running
  /\ \E H \in AccessAnswers :
       Finish("SelfDestruct", 0, SelfDestructExec(CurFrame, returnData, H))

Keccak256Handler ==
  /\ Running
  /\ Finish("Keccak256", 0, Keccak256Exec(CurFrame, returnData))

ReturnHandler ==
  /\ Running
  /\ Finish("Return", 0, ReturnExec(CurFrame, returnData))

RevertHandler ==
  /\ Running
  /\ Finish("Revert", 0, RevertExec(CurFrame, returnData))

CallDataCopyHandler ==
  /\ Running
  /\ Finish("CallDataCopy", 0, CallDataCopyExec(CurFrame, returnData))

CodeCopyHandler ==
  /\ Running
  /\ Finish("CodeCopy", 0, CodeCopyExec(CurFrame, returnData))

ReturnDataCopyHandler ==
  /\ Running
  /\ Finish("ReturnDataCopy", 0, ReturnDataCopyExec(CurFrame, returnData))

MCopyHandler ==
  /\ Running
  /\ Finish("MCopy", 0, MCopyExec(CurFrame, returnData))

ExtCodeCopyHandler ==
  /\ Running
  /\ \E H \in AccessAnswers :
       Finish("ExtCodeCopy", 0, ExtCodeCopyExec(CurFrame, returnData, H))

SignExtendHandler ==
  /\ Running
  /\ Finish("SignExtend", 0, SignExtendExec(CurFrame, returnData))

PushHandler(OpCode) ==
  /\ Running
  /\ Finish("Push", OpCode, PushExec(CurFrame, returnData, OpCode))

DupHandler(OpCode) ==
  /\ Running
  /\ Finish("Dup", OpCode, DupExec(CurFrame, returnData, OpCode))

SwapHandler(OpCode) ==
  /\ Running
  /\ Finish("Swap", OpCode, SwapExec(CurFrame, returnData, OpCode))

JumpHandler ==
  /\ Running
  /\ Finish("Jump", 0, JumpExec(CurFrame, returnData))

JumpIHandler ==
  /\ Running
  /\ Finish("JumpI", 0, JumpIExec(CurFrame, returnData))

---------------------------------------------------------------------------
(* Spec: every handler above, on one frame or on a frame with a caller *)

\* The handlers one behaviour runs under Spec.
MaxOps == 2

\* Operand stacks, the top last.
OperandStacks ==
  { <<>>,
    <<0, 64>>, <<32, 0>>, <<2, Two64 - 1>>, <<1, 3>>, <<1, Two64 + 3>>,
    <<0, 1, 64>>, <<4, 1, 0>>, <<0, 64, 0>>,
    <<4, 1, 0, 9>>,
    <<1, 2, 3, 4, 32, 0>>,
    <<256, 0>>, <<389, 0>>, <<32768, 1>>,
    [I \in 1..STACK_LIMIT |-> I],
    <<0, 64, 0, 0, 0, 1, 5000>> }

\* The K-th context a handler starts in: the frame's memory, the context's
\* return-data, and whether the frame has a caller below it.
PatternMemory == [I \in 1..32 |-> I]
ContextMemory(K) == IF K = 2 THEN PatternMemory ELSE <<>>
ContextReturnData(K) == IF K = 2 THEN <<9, 8>> ELSE <<>>
ContextHasCaller(K) == K = 2

Init ==
  /\ \E G \in {50, 100000}, R \in {EVMC_FRONTIER, EVMC_BERLIN, EVMC_SHANGHAI},
        Fl \in FlagSamples, St \in OperandStacks, K \in 1..2 :
       /\ frames = IF ~ContextHasCaller(K)
                   THEN <<NewFrame(G, R, Fl, 0, St, ContextMemory(K))>>
                   ELSE <<NewFrame(1000, R, 0, 0, <<>>, <<>>),
                          NewFrame(G, R, Fl, 1, St, ContextMemory(K))>>
       /\ returnData = ContextReturnData(K)
  /\ status = "EVMC_SUCCESS"
  /\ isJump = FALSE
  /\ storage = [K \in {} |-> 0]
  /\ tstorage = [K \in {} |-> 0]
  /\ last = NoLast
  /\ fuel = MaxOps

Next ==
  \/ SStoreHandler
  \/ TStoreHandler
  \/ \E N \in 0..4 : LogHandler(OP_LOG0 + N)
  \/ SelfDestructHandler
  \/ Keccak256Handler
  \/ ReturnHandler
  \/ RevertHandler
  \/ CallDataCopyHandler
  \/ CodeCopyHandler
  \/ ReturnDataCopyHandler
  \/ MCopyHandler
  \/ ExtCodeCopyHandler
  \/ JumpHandler
  \/ JumpIHandler
  \/ SignExtendHandler
  \/ \E N \in {1, 2, 4, 32} : PushHandler(OP_PUSH1 + N - 1)
  \/ \E N \in {1, 2, 16} : DupHandler(OP_DUP1 + N - 1)
  \/ \E N \in {1, 2, 16} : SwapHandler(OP_SWAP1 + N - 1)
  \/ CallHandler(OP_CALL)
  \/ CallHandler(OP_CALLCODE)
  \/ CallHandler(OP_DELEGATECALL)
  \/ CallHandler(OP_STATICCALL)
  \/ CreateHandler(OP_CREATE)
  \/ CreateHandler(OP_CREATE2)

Spec == Init /\ [][Next]_vars

---------------------------------------------------------------------------
(* SpecMem: the handlers that read, write and grow the frame's memory *)

MStoreHandler ==
  /\ Running
  /\ Finish("MStore", 0, MStoreExec(CurFrame, returnData))

MStore8Handler ==
  /\ Running
  /\ Finish("MStore8", 0, MStore8Exec(CurFrame, returnData))

MLoadHandler ==
  /\ Running
  /\ Finish("MLoad", 0, MLoadExec(CurFrame, returnData))

MSizeHandler ==
  /\ Running
  /\ Finish("MSize", 0, MSizeExec(CurFrame, returnData))

\* The handlers one behaviour runs under SpecMem.
MaxMemOps == 3

\* Operands of the memory handlers, top last: value and offset of a store,
\* size, source offset and destination of a copy (overlapping both ways, a
\* source offset beyond 64 bits, a source offset beyond every source), and
\* two stores one after the other.
MemStacks ==
  { <<>>, <<5, 0>>, <<7, 33>>, <<300, 1000>>,
    <<4, 1, 0>>, <<2, Two64 + 1, 0>>, <<3, 40, 2>>,
    <<8, 2, 4>>, <<8, 4, 2>>, <<0, 3, 70>>,
    <<9, 64, 5, 0>>, <<8, 0, 16, 7, 1>>, <<5, 900, 6, 3>> }

InitMem ==
  /\ \E G \in {7, 100000}, St \in MemStacks, Mem \in {<<>>, PatternMemory} :
       frames = <<NewFrame(G, EVMC_SHANGHAI, 0, 0, St, Mem)>>
  /\ status = "EVMC_SUCCESS"
  /\ returnData = <<9, 8>>
  /\ isJump = FALSE
  /\ storage = [K \in {} |-> 0]
  /\ tstorage = [K \in {} |-> 0]
  /\ last = NoLast
  /\ fuel = MaxMemOps

NextMem ==
  \/ MStoreHandler
  \/ MStore8Handler
  \/ MLoadHandler
  \/ MSizeHandler
  \/ CallDataCopyHandler
  \/ CodeCopyHandler
  \/ ReturnDataCopyHandler
  \/ MCopyHandler

SpecMem == InitMem /\ [][NextMem]_vars

---------------------------------------------------------------------------
(* SpecAccess: the handlers that look an account up *)

AccountAnswers == [access : {"COLD", "WARM"}, balance : {0, 5}]

BalanceHandler ==
  /\ Running
  /\ \E H \in AccountAnswers :
       Finish("Balance", 0, BalanceExec(CurFrame, returnData, H))

ExtCodeSizeHandler ==
  /\ Running
  /\ \E H \in AccountAnswers :
       Finish("ExtCodeSize", 0, ExtCodeSizeExec(CurFrame, returnData, H))

ExtCodeHashHandler ==
  /\ Running
  /\ \E H \in AccountAnswers :
       Finish("ExtCodeHash", 0, ExtCodeHashExec(CurFrame, returnData, H))

\* The handlers one behaviour runs under SpecAccess.
MaxAccessOps == 2

\* Gas on both sides of the cold surcharge.
AccessGasSamples ==
  {50, ADDITIONAL_COLD_ACCOUNT_ACCESS_COST - 1,
   ADDITIONAL_COLD_ACCOUNT_ACCESS_COST, 100000}

\* An address alone, and the four operands of EXTCODECOPY under one.
AccessStacks == { <<>>, <<9>>, <<4, 1, 0, 9>>, <<0, 0, 0, 9>> }

InitAccess ==
  /\ \E G \in AccessGasSamples, St \in AccessStacks,
        R \in {EVMC_FRONTIER, EVMC_SPURIOUS_DRAGON, EVMC_BERLIN, EVMC_SHANGHAI} :
       frames = <<NewFrame(G, R, 0, 0, St, <<>>)>>
  /\ status = "EVMC_SUCCESS"
  /\ returnData = <<>>
  /\ isJump = FALSE
  /\ storage = [K \in {} |-> 0]
  /\ tstorage = [K \in {} |-> 0]
  /\ last = NoLast
  /\ fuel = MaxAccessOps

NextAccess ==
  \/ BalanceHandler
  \/ ExtCodeSizeHandler
  \/ ExtCodeHashHandler
  \/ ExtCodeCopyHandler

SpecAccess == InitAccess /\ [][NextAccess]_vars

---------------------------------------------------------------------------
(* Reading the history of the handler that ran last *)

LastIsCall == last.name = "Call"
LastIsCreate == last.name = "Create"

\* The operands the CALL / CREATE handler needs.
LastArity ==
  CASE last.op \in {OP_CALL, OP_CALLCODE} -> 7
    [] last.op \in {OP_DELEGATECALL, OP_STATICCALL} -> 6
    [] last.op = OP_CREATE -> 3
    [] OTHER -> 4

LastPassedArity == last.exit # "UnexpectedNumArgs"

\* The records of one kind the last handler left, in order.
LastEvents(Fn) == { last.events[I] : I \in EventsOf(last.events, Fn) }

LastCalled == HasEvent(last.events, "call")

\* The value operand of the last CALL / CALLCODE / CREATE / CREATE2.
LastValue ==
  CASE last.op \in {OP_CALL, OP_CALLCODE} -> peek(last.pre, 2)
    [] last.op \in {OP_CREATE, OP_CREATE2} -> peek(last.pre, 0)
    [] OTHER -> 0

---------------------------------------------------------------------------
(* C1: for every CALL-family or CREATE-family handler that reaches         *)
(* host.call, and every result with 0 <= gas_left <= sub.gas, the parent   *)
(* frame's gas after the handler is its gas just before host.call minus    *)
(* exactly sub.gas - gas_left: the child's consumption is always charged.  *)
C1_ChildGasCharged ==
  (LastIsCall \/ LastIsCreate) =>
    \A E \in LastEvents("call") :
      (0 <= E.result.gas_left /\ E.result.gas_left <= E.msg.gas) =>
        CurFrame.gas = E.gas_before - (E.msg.gas - E.result.gas_left)

\* A CALL whose child used more gas than the parent had left: nothing charged.
C1_Uncharged ==
  /\ LastIsCall /\ LastCalled
  /\ \E E \in LastEvents("call") :
       /\ E.result.gas_left = 0 /\ E.msg.gas > E.gas_before
       /\ CurFrame.gas = E.gas_before

---------------------------------------------------------------------------
(* C6: on Tangerine-Whistle and later the gas a CALL-family opcode         *)
(* forwards (before the stipend) is min(requested, g - floor(g/64)), g the *)
(* parent's gas when the sub-message is built, for every 256-bit request;  *)
(* earlier, a request greater than g ends with out-of-gas and no host.call.*)
C6_GasForwarded ==
  LastIsCall =>
    \A F \in LastEvents("forward") :
      IF last.pre.Rev >= EVMC_TANGERINE_WHISTLE
      THEN F.forwarded = Min(F.requested, F.gas - (F.gas \div 64))
      ELSE F.requested > F.gas =>
             (status = "EVMC_OUT_OF_GAS" /\ ~LastCalled)

\* A request of 2^256 - 1 ("all gas") forwarded as a negative gas.
C6_NegativeForward ==
  /\ LastIsCall /\ LastCalled
  /\ \E F \in LastEvents("forward") :
       F.requested = Two256 - 1 /\ F.forwarded < 0

---------------------------------------------------------------------------
(* C7: on every exit of a CALL-family handler that passed the arity check  *)
(* the stack holds the entries it held before, less the operands, plus     *)
(* exactly one: the assumed-failure 0 is pushed once.                      *)
C7_OneResultPushed ==
  (LastIsCall /\ LastPassedArity) =>
    stackHeight(CurFrame) = stackHeight(last.pre) - LastArity + 1

\* The out-of-gas exit after the value / new-account cost: two entries pushed.
C7_PushedTwice ==
  /\ LastIsCall /\ last.exit = "oog_cost"
  /\ stackHeight(CurFrame) = stackHeight(last.pre) - LastArity + 2

---------------------------------------------------------------------------
(* C9: a CALL or CALLCODE is charged CALL_VALUE_COST and its sub-message   *)
(* gets CALL_GAS_STIPEND iff the value operand is greater than 0;          *)
(* DELEGATECALL and STATICCALL get neither; ACCOUNT_CREATION_COST is added *)
(* only for a CALL to an account that does not exist.                      *)
C9_ValueCostIffValue ==
  LastIsCall =>
    \A E \in LastEvents("call") : \A F \in LastEvents("forward") :
      LET Transfers == last.op \in {OP_CALL, OP_CALLCODE} /\ LastValue > 0
          NewAccount == last.op = OP_CALL
                        /\ \E X \in LastEvents("account_exists") : ~X.res
      IN /\ F.gas - E.gas_before =
              (IF Transfers THEN CALL_VALUE_COST ELSE 0)
              + (IF NewAccount THEN ACCOUNT_CREATION_COST ELSE 0)
         /\ E.msg.gas - F.forwarded =
              (IF Transfers THEN CALL_GAS_STIPEND ELSE 0)

\* A CALL with value 0 that is charged the value cost and given the stipend.
C9_ChargedWithoutValue ==
  /\ LastIsCall /\ last.op = OP_CALL /\ LastValue = 0
  /\ \E E \in LastEvents("call") : \E F \in LastEvents("forward") :
       /\ F.gas - E.gas_before >= CALL_VALUE_COST
       /\ E.msg.gas - F.forwarded = CALL_GAS_STIPEND

---------------------------------------------------------------------------
(* C10: the sub-message of a CALL-family opcode has the opcode's call kind *)
(* (a member of the message-kind enumeration), recipient = target for CALL *)
(* and STATICCALL and the executing account otherwise, sender = the        *)
(* parent's sender for DELEGATECALL and the executing account otherwise,   *)
(* value = the parent's for DELEGATECALL, 0 for STATICCALL, the operand    *)
(* otherwise, code_address = target, depth = the parent's + 1.             *)
CallTarget == trunc_address(peek(last.pre, 1))

C10_Fields(M) ==
  /\ M.recipient = IF last.op \in {OP_CALL, OP_STATICCALL}
                   THEN CallTarget ELSE last.pre.recipient
  /\ M.sender = IF last.op = OP_DELEGATECALL
                THEN last.pre.sender ELSE last.pre.recipient
  /\ M.value = CASE last.op = OP_DELEGATECALL -> last.pre.value
                 [] last.op = OP_STATICCALL -> 0
                 [] OTHER -> LastValue
  /\ M.code_address = CallTarget
  /\ M.depth = last.pre.depth + 1

C10_SubMessage ==
  LastIsCall =>
    \A E \in LastEvents("call") :
      /\ E.msg.kind \in CallKinds
      /\ E.msg.kind = CASE last.op = OP_CALLCODE -> EVMC_CALLCODE
                        [] last.op = OP_DELEGATECALL -> EVMC_DELEGATECALL
                        [] OTHER -> EVMC_CALL
      /\ C10_Fields(E.msg)

\* The kind handed to the Host is the opcode byte, no member of the enumeration;
\* every other field is as claimed.
C10_KindIsOpcode ==
  /\ LastIsCall /\ LastCalled
  /\ \A E \in LastEvents("call") :
       E.msg.kind = last.op /\ E.msg.kind \notin CallKinds /\ C10_Fields(E.msg)

---------------------------------------------------------------------------
(* C8: a CALL-family or CREATE-family opcode in a frame at depth >= 1024,  *)
(* or with a value operand above the executing account's balance, ends     *)
(* with status success, its operands replaced by a single 0, no host.call, *)
(* empty return-data, and no gas deducted for the sub-call or for memory   *)
(* expansion.                                                              *)

\* The frame is at the depth limit, or the Host reported a balance below
\* the value operand.
LightCase ==
  \/ last.pre.depth >= MAXSTACK
  \/ \E B \in LastEvents("get_balance") : B.res < LastValue

\* What the handler charges before it tests for a light failure: the account
\* access (CALL family), the initcode words (CREATE family).
UpfrontCharge ==
  IF LastIsCall
  THEN IF last.pre.Rev >= EVMC_BERLIN
          /\ \E A \in LastEvents("access_account") : A.res = "COLD"
       THEN COLD_ACCOUNT_ACCESS_COST ELSE WARM_ACCOUNT_ACCESS_COST
  ELSE InitCodeCost(last.pre.Rev, last.op, peek(last.pre, 2))

LightOutcome ==
  /\ status = "EVMC_SUCCESS"
  /\ CurFrame.stack = Append(popN(last.pre, LastArity).stack, 0)
  /\ ~LastCalled
  /\ returnData = <<>>
  /\ CurFrame.Memory = last.pre.Memory
  /\ CurFrame.gas = last.pre.gas - UpfrontCharge

UpfrontPasses ==
  IF LastIsCall
  THEN last.pre.gas >= UpfrontCharge
  ELSE /\ ~isStaticMode(last.pre)
       /\ ~(last.pre.Rev >= EVMC_SHANGHAI /\ peek(last.pre, 2) > MAX_SIZE_OF_INITCODE)
       /\ last.pre.gas >= UpfrontCharge

---------------------------------------------------------------------------
(* Static mode *)

LastRan == last.name # "none"

LastStatic == LastRan /\ isStaticMode(last.pre)

\* The Host calls a static frame must not make: the four mutating calls, and
\* host.call for a CREATE, CREATE2 or CALL sub-message.
LastMutatedHost ==
  \/ HasEvent(last.events, "set_storage")
  \/ HasEvent(last.events, "set_transient_storage")
  \/ HasEvent(last.events, "emit_log")
  \/ HasEvent(last.events, "selfdestruct")
  \/ /\ HasEvent(last.events, "call")
     /\ last.name = "Create" \/ (last.name = "Call" /\ last.op = OP_CALL)

LastIsMutator ==
  last.name \in {"SStore", "TStore", "Log", "SelfDestruct", "Create"}

\* C2 as stated: in a static frame no handler invokes host.set_storage,
\* host.set_transient_storage, host.emit_log or host.selfdestruct or dispatches
\* a CREATE, CREATE2 or CALL sub-message, and SSTORE, TSTORE, LOGn,
\* SELFDESTRUCT, CREATE and CREATE2 end with static-mode-violation and leave
\* the Host storage unchanged.
C2_StaticAlwaysViolation ==
  LastStatic =>
    /\ ~LastMutatedHost
    /\ LastIsMutator =>
         status = "EVMC_STATIC_MODE_VIOLATION" /\ storage = last.storage0

\* C2 amended: the same, where CREATE and CREATE2 end with
\* static-mode-violation once their operand count has been checked; with too
\* few operands they end with stack-underflow (and still reach no Host call).
C2_StaticForbidsMutation ==
  LastStatic =>
    /\ ~LastMutatedHost
    /\ LastIsMutator => storage = last.storage0
    /\ (LastIsMutator /\ (last.name = "Create" => LastPassedArity)) =>
         status = "EVMC_STATIC_MODE_VIOLATION"
    /\ (last.name = "Create" /\ ~LastPassedArity) =>
         status = "EVMC_STACK_UNDERFLOW"

\* C2 witness: a CREATE with its operands, and an SSTORE, refused in a static
\* frame (the SSTORE after an earlier handler of the same frame).
C2_StaticRefused ==
  /\ LastStatic
  /\ last.name \in {"Create", "SStore"}
  /\ LastPassedArity
  /\ stackHeight(last.pre) >= 2
  /\ status = "EVMC_STATIC_MODE_VIOLATION"

---------------------------------------------------------------------------
(* Out of gas *)

\* The handler ended the frame because a charge of its own could not be paid.
LastOwnOutOfGas ==
  /\ LastRan
  /\ status = "EVMC_OUT_OF_GAS"
  /\ last.exit \in {"oog", "oog_memory", "oog_data", "oog_copy", "oog_access",
                    "oog_creation", "oog_cost", "oog_initcode"}

\* C3: a handler that ends with out-of-gas on one of its own charges has
\* invoked none of host.set_storage, host.emit_log, host.selfdestruct and
\* host.call, and has left every storage slot as it was.
C3_NoMutationBeforeOutOfGas ==
  LastOwnOutOfGas =>
    /\ ~HasEvent(last.events, "set_storage")
    /\ ~HasEvent(last.events, "emit_log")
    /\ ~HasEvent(last.events, "selfdestruct")
    /\ ~HasEvent(last.events, "call")
    /\ \A K \in DOMAIN storage :
         get_storage(storage, K) = get_storage(last.storage0, K)

\* C3 witness of the divergence: an SSTORE out of gas whose slot has changed.
C3_StoredThenOutOfGas ==
  /\ LastOwnOutOfGas
  /\ last.name = "SStore"
  /\ \E K \in DOMAIN storage :
       get_storage(storage, K) # get_storage(last.storage0, K)

---------------------------------------------------------------------------
(* Memory accesses of size 0 *)

\* The handler that ran last got its operands, and each size operand of its
\* memory ranges is 0.
LastSizesZero ==
  /\ LastRan
  /\ LastPassedArity
  /\ CASE last.name \in {"CallDataCopy", "CodeCopy", "ReturnDataCopy", "MCopy"} ->
            stackHeight(last.pre) >= 3 /\ peek(last.pre, 2) = 0
       [] last.name = "ExtCodeCopy" ->
            stackHeight(last.pre) >= 4 /\ peek(last.pre, 3) = 0
       [] last.name \in {"Keccak256", "Return", "Revert", "Log"} ->
            stackHeight(last.pre) >= 2 /\ peek(last.pre, 1) = 0
       [] last.name = "Create" -> peek(last.pre, 2) = 0
       [] last.name = "Call" /\ last.op \in {OP_CALL, OP_CALLCODE} ->
            peek(last.pre, 4) = 0 /\ peek(last.pre, 6) = 0
       [] last.name = "Call" -> peek(last.pre, 3) = 0 /\ peek(last.pre, 5) = 0
       [] OTHER -> FALSE

\* C4: a memory-touching handler whose size operand is 0 leaves the memory
\* length as it was and charges no memory-expansion gas, whatever the offset.
C4_ZeroSizeNoExpansion ==
  LastSizesZero =>
    /\ Len(last.post.Memory) = Len(last.pre.Memory)
    /\ last.post.expansionGas = last.pre.expansionGas

\* C4 witness of the divergence: a RETURN of size 0 that grew the memory and
\* paid for it.
C4_ExpandedForNothing ==
  /\ LastSizesZero
  /\ last.name = "Return"
  /\ Len(last.post.Memory) > Len(last.pre.Memory)
  /\ last.post.expansionGas > last.pre.expansionGas

---------------------------------------------------------------------------
(* SpecCost: calculateMemoryExpansionCost on pairs of sizes *)

\* Current sizes on both sides of a word boundary, and where the quadratic
\* term of the cost has set in.
CostCurrentSizes == {0, 1, 31, 32, 33, 736, 1000}

\* New sizes: all that expandMemoryAndChargeGas, the function's one caller,
\* lets through.
CostNewSizes == 0..MAX_REQUIRED_MEMORY_SIZE

InitCost ==
  /\ \E CurrentSize \in CostCurrentSizes, NewSize \in CostNewSizes :
       last = [name |-> "input", CurrentSize |-> CurrentSize,
               NewSize |-> NewSize]
  /\ frames = <<>>
  /\ status = "EVMC_SUCCESS"
  /\ returnData = <<>>
  /\ isJump = FALSE
  /\ storage = [K \in {} |-> 0]
  /\ tstorage = [K \in {} |-> 0]
  /\ fuel = 1

CostStep ==
  /\ last.name = "input"
  /\ last' = [name |-> "calculateMemoryExpansionCost",
              CurrentSize |-> last.CurrentSize, NewSize |-> last.NewSize,
              cost |-> calculateMemoryExpansionCost(last.CurrentSize,
                                                    last.NewSize)]
  /\ fuel' = 0
  /\ UNCHANGED <<frames, status, returnData, isJump, storage, tstorage>>

NextCost == CostStep

SpecCost == InitCost /\ [][NextCost]_vars

\* ceil(N / 32) and C(w) = floor(w * w / 512) + 3 * w, as the formula states
\* them.
CeilWords(N) == IF N % 32 = 0 THEN N \div 32 ELSE N \div 32 + 1
WordsCost(W) == (W * W) \div 512 + 3 * W

CostComputed == last.name = "calculateMemoryExpansionCost"

\* C5: for sizes c and n, calculateMemoryExpansionCost(c, n) is
\* C(ceil(n/32)) - C(ceil(c/32)) when n > c and 0 when n <= c, and for fixed
\* c it is non-decreasing in n.
C5_ExpansionCost ==
  CostComputed =>
    /\ last.NewSize > last.CurrentSize =>
         last.cost = WordsCost(CeilWords(last.NewSize))
                     - WordsCost(CeilWords(last.CurrentSize))
    /\ last.NewSize <= last.CurrentSize => last.cost = 0
    /\ \A Smaller \in CostNewSizes :
         Smaller <= last.NewSize =>
           calculateMemoryExpansionCost(last.CurrentSize, Smaller) <= last.cost

\* C5 witness: a growth whose cost includes the quadratic term.
C5_QuadraticCost ==
  /\ CostComputed
  /\ last.NewSize > last.CurrentSize
  /\ last.cost > 3 * (CeilWords(last.NewSize) - CeilWords(last.CurrentSize))

---------------------------------------------------------------------------
(* SSTORE gas *)

\* The first record of one kind the last handler left.
LastEvent(Fn) == last.events[CHOOSE I \in EventsOf(last.events, Fn) : TRUE]

LastStored == last.name = "SStore" /\ HasEvent(last.events, "set_storage")

\* cold + warm_cost of the SSTORE that ran last, from the Host's answers.
LastSStoreCost ==
  (IF /\ last.pre.Rev >= EVMC_BERLIN
      /\ HasEvent(last.events, "access_storage")
      /\ LastEvent("access_storage").res = "COLD"
   THEN 2100 ELSE 0)
  + SstoreCosts(last.pre.Rev, LastEvent("set_storage").res)[1]

LastSStoreRefund == SstoreCosts(last.pre.Rev, LastEvent("set_storage").res)[2]

\* C11: an SSTORE that reached host.set_storage with enough gas pays exactly
\* cold + warm_cost and adds exactly the refund of SSTORE_COSTS[rev][status];
\* with too little gas it ends with out-of-gas, gas and gas_refund unchanged.
C11_SStoreGas ==
  LastStored =>
    IF last.pre.gas >= LastSStoreCost
    THEN /\ last.post.gas = last.pre.gas - LastSStoreCost
         /\ last.post.GasRefund = last.pre.GasRefund + LastSStoreRefund
         /\ status = "EVMC_SUCCESS"
    ELSE /\ status = "EVMC_OUT_OF_GAS"
         /\ last.post.gas = last.pre.gas
         /\ last.post.GasRefund = last.pre.GasRefund

\* C11 witness: a cold SSTORE on Berlin+ that deleted a slot, paid and got the
\* refund.
C11_ColdDeletePaid ==
  /\ LastStored
  /\ last.pre.Rev >= EVMC_BERLIN
  /\ LastEvent("access_storage").res = "COLD"
  /\ LastEvent("set_storage").res = "EVMC_STORAGE_DELETED"
  /\ last.post.gas = last.pre.gas - 5000
  /\ last.post.GasRefund > last.pre.GasRefund

---------------------------------------------------------------------------
(* Jumps *)

LastJump == last.name \in {"Jump", "JumpI"} /\ LastPassedArity

\* The 256-bit destination popped, and whether the jump is to be taken.
LastDest == peek(last.pre, 0)
LastTaken == last.name = "Jump" \/ peek(last.pre, 1) # 0
LastDestValid == LastDest < Len(Code) /\ Code[LastDest + 1] = 91

\* C12: a JUMP, or a JUMPI with a non-zero condition, sets pc to dest and
\* is_jump only if dest < code_size and code[dest] is JUMPDEST; every other
\* dest, those at or above 2^64 included, ends with bad-jump-destination, pc
\* and is_jump unchanged; a JUMPI with condition 0 changes neither and does
\* not fault.
C12_JumpChecked ==
  LastJump =>
    CASE ~LastTaken ->
           /\ status = "EVMC_SUCCESS"
           /\ last.post.Pc = last.pre.Pc /\ isJump = last.isJump0
      [] LastTaken /\ LastDestValid ->
           /\ status = "EVMC_SUCCESS"
           /\ last.post.Pc = LastDest /\ isJump
      [] OTHER ->
           /\ status = "EVMC_BAD_JUMP_DESTINATION"
           /\ last.post.Pc = last.pre.Pc /\ isJump = last.isJump0

\* C12 witness of the divergence: a destination at or above 2^64 was jumped
\* to, at its low 64 bits.
C12_JumpedOnTruncatedDest ==
  /\ LastJump /\ LastTaken
  /\ LastDest >= Two64
  /\ status = "EVMC_SUCCESS"
  /\ isJump /\ ~last.isJump0
  /\ last.post.Pc = LastDest % Two64

---------------------------------------------------------------------------
(* RETURN and REVERT *)

\* The end of the range [off, off + size) of the RETURN / REVERT that ran last.
LastRangeEnd == peek(last.pre, 0) + peek(last.pre, 1)

\* The RETURN / REVERT that ran last had its operands, a range within the
\* memory limit, and the gas to expand the memory to it.
LastReturnPaid ==
  /\ last.name \in {"Return", "Revert"}
  /\ LastPassedArity
  /\ LastRangeEnd <= MAX_REQUIRED_MEMORY_SIZE
  /\ last.pre.gas >=
       calculateMemoryExpansionCost(Len(last.pre.Memory), LastRangeEnd)

\* memory[off .. off + size), the memory zero-padded where it had to grow.
LastRangeBytes ==
  [I \in 1..peek(last.pre, 1) |->
     IF peek(last.pre, 0) + I <= Len(last.pre.Memory)
     THEN last.pre.Memory[peek(last.pre, 0) + I] ELSE 0]

\* C13: RETURN / REVERT with enough gas for the expansion set the return-data
\* to memory[off..off+size), the status to success / revert, remove exactly
\* the current frame, and add its remaining gas to the parent's gas; with no
\* parent no gas is credited anywhere.
C13_ReturnUnwinds ==
  LastReturnPaid =>
    /\ returnData = LastRangeBytes
    /\ status = (IF last.name = "Return" THEN "EVMC_SUCCESS" ELSE "EVMC_REVERT")
    /\ Len(frames) = last.frames0 - 1
    /\ last.post.gas =
         last.pre.gas
         - calculateMemoryExpansionCost(Len(last.pre.Memory), LastRangeEnd)
    /\ frames = IF last.below = <<>>
                THEN <<>>
                ELSE [last.below EXCEPT ![Len(last.below)].gas = @ + last.post.gas]

\* C13 witness: a REVERT of 32 bytes in a frame with a parent, the parent
\* credited with what the frame had left.
C13_RevertCredited ==
  /\ LastReturnPaid
  /\ last.name = "Revert"
  /\ Len(returnData) = 32
  /\ last.below # <<>>
  /\ last.post.gas > 0
  /\ frames[1].gas = last.below[1].gas + last.post.gas

---------------------------------------------------------------------------
(* C14: the stack bound and the operand checks *)

\* The operands the last handler needs: the count of its EVM_STACK_CHECK or
\* of its stackHeight test.
LastNeeds ==
  CASE last.name \in {"Call", "Create"} -> LastArity
    [] last.name = "Log" -> last.op - OP_LOG0 + 2
    [] last.name = "ExtCodeCopy" -> 4
    [] last.name \in {"CallDataCopy", "CodeCopy", "ReturnDataCopy", "MCopy"} -> 3
    [] last.name \in {"SStore", "TStore", "Keccak256", "Return", "Revert",
                      "SignExtend", "JumpI"} -> 2
    [] last.name \in {"SelfDestruct", "Jump"} -> 1
    [] last.name = "Dup" -> last.op - OP_DUP1 + 1
    [] last.name = "Swap" -> last.op - OP_SWAP1 + 2
    [] OTHER -> 0

LastStarved == LastRan /\ stackHeight(last.pre) < LastNeeds

\* C14: no frame's stack ever holds more than STACK_LIMIT entries, and a
\* handler run on a stack with fewer entries than it needs ends in a fault
\* with the frame stack, and every entry of the current frame's stack, as
\* they were before it: nothing popped, nothing pushed.  DUPn needs n and
\* SWAPn needs n + 1.
C14_StackBoundAndArity ==
  /\ \A I \in 1..Len(frames) : stackHeight(frames[I]) <= STACK_LIMIT
  /\ LastStarved =>
       /\ status # "EVMC_SUCCESS"
       /\ last.exit # "done"
       /\ Len(frames) = last.frames0
       /\ CurFrame.stack = last.pre.stack
       /\ last.post.stack = last.pre.stack

\* C14 witness: DUP2 ran on a stack of one entry and raised the arity error.
C14_DupStarved ==
  /\ last.name = "Dup" /\ last.op = OP_DUP1 + 1
  /\ stackHeight(last.pre) = 1
  /\ status = "EVMC_STACK_UNDERFLOW"
  /\ CurFrame.stack = last.pre.stack

---------------------------------------------------------------------------
(* C15: SIGNEXTEND *)

LastSignExtended == last.name = "SignExtend" /\ last.exit = "done"

\* The value whose bits 0..Pos are those of X and whose bits above Pos all
\* equal bit Pos of X.
SignExtension(X, Pos) ==
  IF Shl1(Pos + 1) = 0
  THEN X
  ELSE IF BitSet(X, Pos)
  THEN (X % Shl1(Pos + 1)) + (Two256 - Shl1(Pos + 1))
  ELSE X % Shl1(Pos + 1)

\* C15: SIGNEXTEND(i, x) with i < 31 pushes x with every bit above 8*i+7 made
\* equal to bit 8*i+7 (ones when it is 1, zeros when it is 0), and with
\* i >= 31 pushes x unchanged; one entry replaces the two operands.
C15_SignExtend ==
  LastSignExtended =>
    /\ stackHeight(last.post) = stackHeight(last.pre) - 1
    /\ peek(last.post, 0) =
         IF peek(last.pre, 0) < 31
         THEN SignExtension(peek(last.pre, 1), 8 * peek(last.pre, 0) + 7)
         ELSE peek(last.pre, 1)

\* C15 witness: SIGNEXTEND(0, 0x100), sign bit 7 clear, pushed 0x100 with
\* bit 8 still set.
C15_HighBitsKept ==
  /\ LastSignExtended
  /\ peek(last.pre, 0) = 0 /\ peek(last.pre, 1) = 256
  /\ ~BitSet(256, 7)
  /\ peek(last.post, 0) = 256

\* SIGNEXTEND agrees with the extension whenever the sign bit is set, and
\* for i >= 31.
C15_SignExtendOnes ==
  LastSignExtended /\ (peek(last.pre, 0) >= 31
                       \/ BitSet(peek(last.pre, 1), 8 * peek(last.pre, 0) + 7)) =>
    peek(last.post, 0) =
      IF peek(last.pre, 0) < 31
      THEN SignExtension(peek(last.pre, 1), 8 * peek(last.pre, 0) + 7)
      ELSE peek(last.pre, 1)

---------------------------------------------------------------------------
(* C16: KECCAK256 *)

LastHashed == last.name = "Keccak256" /\ last.exit = "done"

\* GAS_KECCAK256_WORD for every 32-byte word of the hashed range.
KeccakWordCost(Length) == 6 * ((Length + 31) \div 32)

\* C16: a KECCAK256(off, len) that completes has charged the frame the
\* expansion of the memory to off + len and 6 gas for every word of len, and
\* has pushed the digest of memory[off, off + len) in place of its operands.
C16_KeccakCharged ==
  LastHashed =>
    /\ last.post.gas =
         last.pre.gas
         - calculateMemoryExpansionCost(Len(last.pre.Memory), LastRangeEnd)
         - KeccakWordCost(peek(last.pre, 1))
    /\ stackHeight(last.post) = stackHeight(last.pre) - 1
    /\ peek(last.post, 0) =
         keccak256(Slice(last.post.Memory, peek(last.pre, 0), peek(last.pre, 1)))

\* C16 witness: KECCAK256 over a range of at least one byte completed and the
\* frame paid the memory expansion alone.
C16_WordsNotCharged ==
  /\ LastHashed
  /\ peek(last.pre, 1) > 0
  /\ last.post.gas =
       last.pre.gas
       - calculateMemoryExpansionCost(Len(last.pre.Memory), LastRangeEnd)

\* Apart from the word charge, KECCAK256 of a 64-bit range is as stated:
\* expansion charged, digest of the range pushed.
C16_KeccakDigest ==
  LastHashed /\ peek(last.pre, 0) < Two64 /\ peek(last.pre, 1) < Two64 =>
    /\ last.post.gas =
         last.pre.gas
         - calculateMemoryExpansionCost(Len(last.pre.Memory), LastRangeEnd)
    /\ peek(last.post, 0) =
         keccak256(Slice(last.post.Memory, peek(last.pre, 0), peek(last.pre, 1)))

---------------------------------------------------------------------------
(* C17: PUSHn *)

LastPush == last.name = "Push"
LastPushBytes == last.op - OP_PUSH1 + 1
LastPushFits == last.pre.Pc + LastPushBytes < Len(Code)

\* The number a byte string spells, most significant byte first.
RECURSIVE BigEndian(_)
BigEndian(Bytes) ==
  IF Bytes = <<>>
  THEN 0
  ELSE Bytes[Len(Bytes)] + 256 * BigEndian(SubSeq(Bytes, 1, Len(Bytes) - 1))

\* PUSHn pushed the value of code[pc+1 .. pc+n] and moved pc by n.
LastPushedImmediate ==
  /\ last.exit = "done" /\ status = "EVMC_SUCCESS"
  /\ last.post.stack =
       Append(last.pre.stack,
              BigEndian(SubSeq(Code, last.pre.Pc + 2,
                               last.pre.Pc + 1 + LastPushBytes)))
  /\ last.post.Pc = last.pre.Pc + LastPushBytes

\* PUSHn ended in the fault of that status with stack and pc as they were.
LastPushRefused(Status) ==
  /\ status = Status
  /\ last.post.stack = last.pre.stack
  /\ last.post.Pc = last.pre.Pc

\* No code byte was copied from an index at or beyond the code size.
LastReadWithinCode ==
  \A E \in LastEvents("memcpy") : E.first >= 0 /\ E.last < Len(Code)

\* C17 as stated: PUSHn with pc + n < code_size pushes the big-endian value
\* of code[pc+1 .. pc+n], one entry more on the stack, pc advanced by n; with
\* pc + n >= code_size it raises unexpected-end with stack and pc unchanged;
\* no code byte at or beyond code_size is read.
C17_PushAlways ==
  LastPush =>
    /\ LastPushFits => LastPushedImmediate
    /\ ~LastPushFits => LastPushRefused("UNEXPECTED_END")
    /\ LastReadWithinCode

\* C17: the same on a stack below its limit; on a full stack with
\* pc + n < code_size PUSHn ends in stack-overflow with stack and pc
\* unchanged.
C17_Push ==
  LastPush =>
    /\ LastPushFits /\ stackHeight(last.pre) < STACK_LIMIT => LastPushedImmediate
    /\ LastPushFits /\ stackHeight(last.pre) >= STACK_LIMIT =>
         LastPushRefused("EVMC_STACK_OVERFLOW")
    /\ ~LastPushFits => LastPushRefused("UNEXPECTED_END")
    /\ LastReadWithinCode

\* C17 witness: PUSH2 at pc 0 pushed code[1] * 256 + code[2] and left pc at 2.
C17_PushedTwoBytes ==
  /\ LastPush /\ LastPushBytes = 2 /\ last.pre.Pc = 0
  /\ peek(last.post, 0) = Code[2] * 256 + Code[3]
  /\ stackHeight(last.post) = stackHeight(last.pre) + 1
  /\ last.post.Pc = 2

\* PUSHn on a full stack.
C17_PushOnFullStack ==
  /\ LastPush /\ LastPushFits
  /\ stackHeight(last.pre) = STACK_LIMIT
  /\ status = "EVMC_STACK_OVERFLOW"

\* PUSHn past the end of the code, after an earlier handler moved pc.
C17_PushPastEnd ==
  /\ LastPush /\ ~LastPushFits /\ last.pre.Pc > 0
  /\ status = "UNEXPECTED_END"

---------------------------------------------------------------------------
(* C18: what CREATE / CREATE2 leave after host.call *)

LastCreated == LastIsCreate /\ LastCalled

LastResult == LastEvent("call").result

\* C18: after a CREATE / CREATE2 that invoked host.call the status is
\* result.status_code, the stack is one entry above the operands, that entry
\* being the created address on success and 0 otherwise, the return-data is
\* result.output_data, and gas_refund has grown by result.gas_refund.
C18_CreateResult ==
  LastCreated =>
    /\ status = LastResult.status_code
    /\ stackHeight(last.post) = stackHeight(last.pre) - LastArity + 1
    /\ last.post.stack =
         Append(SubSeq(last.pre.stack, 1, stackHeight(last.pre) - LastArity),
                IF LastResult.status_code = "EVMC_SUCCESS"
                THEN LastResult.create_address ELSE 0)
    /\ returnData = LastResult.output_data
    /\ last.post.GasRefund = last.pre.GasRefund + LastResult.gas_refund

\* C18 witness: a CREATE2 whose sub-call succeeded left the created address
\* on top and took over the sub-call's refund.
C18_AddressPushed ==
  /\ LastCreated /\ last.op = OP_CREATE2
  /\ LastResult.status_code = "EVMC_SUCCESS"
  /\ LastResult.gas_refund > 0
  /\ peek(last.post, 0) = LastResult.create_address
  /\ peek(last.post, 0) # 0
  /\ last.post.GasRefund = last.pre.GasRefund + LastResult.gas_refund

\* A CREATE whose sub-call reverted left 0 on top and the revert data.
C18_RevertedCreate ==
  /\ LastCreated
  /\ status = "EVMC_REVERT"
  /\ peek(last.post, 0) = 0
  /\ returnData = LastResult.output_data /\ returnData # <<>>

---------------------------------------------------------------------------
(* C19: the messages handed to host.call *)

LastMsgs == { E.msg : E \in LastEvents("call") }

\* C19: every message a CALL-family or CREATE-family handler hands to
\* host.call is one level below its parent, no deeper than MAXSTACK, and
\* carries a gas that is not negative.
C19_SubMessageBounds ==
  LastRan =>
    \A M \in LastMsgs :
      /\ M.depth = last.pre.depth + 1
      /\ M.depth <= MAXSTACK
      /\ M.gas >= 0

\* C19 witness: a CALL-family handler whose gas operand is 2^256 - 1 handed
\* host.call a message with negative gas.
C19_NegativeGasSent ==
  /\ LastIsCall
  /\ peek(last.pre, 0) = Two256 - 1
  /\ \E M \in LastMsgs : M.gas < 0 /\ M.depth = last.pre.depth + 1

\* The depth half of C19.
C19_SubMessageDepth ==
  LastRan =>
    \A M \in LastMsgs : M.depth = last.pre.depth + 1 /\ M.depth <= MAXSTACK

\* Every message of CREATE / CREATE2 carries a gas that is not negative.
C19_CreateGas ==
  LastIsCreate => \A M \in LastMsgs : M.gas >= 0

---------------------------------------------------------------------------
(* C20: a frame is popped only after setStatus *)

\* The statuses that end a frame: returned, reverted, or halted.
TerminalStatuses ==
  {"EVMC_SUCCESS", "EVMC_REVERT", "EVMC_OUT_OF_GAS", "EVMC_STATIC_MODE_VIOLATION",
   "EVMC_STACK_UNDERFLOW", "EVMC_STACK_OVERFLOW", "EVMC_BAD_JUMP_DESTINATION",
   "EVMC_INVALID_INSTRUCTION", "UNEXPECTED_END", "INTEGER_OVERFLOW",
   "TOO_LARGE_MEMORY"}

LastPopped == LastRan /\ Len(frames) < last.frames0

\* The last handler called setStatus with a terminal status before it
\* called freeBackFrame.
LastStatusSetBeforePop ==
  \A I \in EventsOf(last.events, "freeBackFrame") :
    \E J \in 1..(I - 1) :
      /\ last.events[J].fn = "setStatus"
      /\ last.events[J].status \in TerminalStatuses

\* C20: every handler execution that pops the current frame off the frame
\* stack (RETURN, REVERT, SELFDESTRUCT) has called setStatus with a terminal
\* status earlier in the same execution.
C20_StatusSetBeforePop ==
  LastPopped =>
    /\ HasEvent(last.events, "freeBackFrame")
    /\ LastStatusSetBeforePop

\* C20 witness: SELFDESTRUCT told the Host, popped its frame and never
\* called setStatus.
C20_PoppedWithoutStatus ==
  /\ last.name = "SelfDestruct"
  /\ LastPopped
  /\ HasEvent(last.events, "selfdestruct")
  /\ ~HasEvent(last.events, "setStatus")

\* RETURN and REVERT do call setStatus before they pop the frame.
C20_ReturnSetsStatus ==
  LastPopped /\ last.name \in {"Return", "Revert"} =>
    /\ LastStatusSetBeforePop
    /\ status = LastEvent("setStatus").status

---------------------------------------------------------------------------
(* C21: the order of the unwinding steps of RETURN and REVERT *)

LastUnwound == last.name \in {"Return", "Revert"} /\ last.exit = "done"

\* The calls the last handler made, by name, in order.
LastCalls == [I \in 1..Len(last.events) |-> last.events[I].fn]

\* The first position of a call in the last handler, 0 when it never made it.
LastAt(Fn) ==
  IF HasEvent(last.events, Fn)
  THEN CHOOSE I \in EventsOf(last.events, Fn) :
         \A J \in EventsOf(last.events, Fn) : I <= J
  ELSE 0

\* The frame is gone and the frame below it, if any, has the read gas more.
LastCreditedAfterPop ==
  /\ Len(frames) = last.frames0 - 1
  /\ frames # <<>> =>
       CurFrame.gas = last.below[Len(last.below)].gas + LastEvent("RemainingGas").gas

\* C21 as stated: status set, then return-data taken from memory, then the
\* frame popped, then the parent credited; memory and remaining gas read
\* before the pop.
C21_StatusFirst ==
  LastUnwound =>
    /\ 0 < LastAt("setStatus")
    /\ LastAt("setStatus") < LastAt("Memory.begin")
    /\ LastAt("Memory.begin") <= LastAt("setReturnData")
    /\ LastAt("setReturnData") < LastAt("freeBackFrame")
    /\ LastAt("RemainingGas") < LastAt("freeBackFrame")
    /\ LastCreditedAfterPop

\* C21: RETURN copies the memory range, sets it as return-data and then sets
\* the status; REVERT copies the memory range, sets the status and then sets
\* the return-data; both then read the remaining gas, pop the frame and
\* credit the parent with the gas read.
C21_UnwindOrder ==
  LastUnwound =>
    /\ LastCalls =
         IF last.name = "Return"
         THEN <<"Memory.begin", "setReturnData", "setStatus", "RemainingGas",
                "freeBackFrame">>
         ELSE <<"Memory.begin", "setStatus", "setReturnData", "RemainingGas",
                "freeBackFrame">>
    /\ LastEvent("RemainingGas").gas = last.post.gas
    /\ LastCreditedAfterPop

\* C21 witness: a RETURN in a called frame set the return-data before the
\* status, and the caller got the gas read before the pop.
C21_ReturnDataFirst ==
  /\ LastUnwound /\ last.name = "Return"
  /\ LastAt("setReturnData") < LastAt("setStatus")
  /\ frames # <<>>
  /\ LastEvent("RemainingGas").gas > 0
  /\ CurFrame.gas = last.below[Len(last.below)].gas + LastEvent("RemainingGas").gas

---------------------------------------------------------------------------
(* C22: the account-access surcharge of the CALL family *)

\* A CALL-family handler that ended right after the access charge: at the
\* depth test, or at the access charge itself.
LastCallAtAccess == LastIsCall /\ last.exit \in {"light_depth", "oog_access"}

LastAccessAnswers == { E.res : E \in LastEvents("access_account") }

\* The surcharge the claim states for the last CALL-family handler.
LastAccessSurcharge ==
  IF last.pre.Rev < EVMC_BERLIN THEN 0
  ELSE IF "COLD" \in LastAccessAnswers
  THEN COLD_ACCOUNT_ACCESS_COST ELSE WARM_ACCOUNT_ACCESS_COST

\* C22: a CALL-family handler deducts 2600 for a COLD and 100 for a WARM
\* account on Berlin and later, ending in out-of-gas when the frame cannot
\* pay; before Berlin it deducts no access surcharge and does not call
\* host.access_account.
C22_AccessSurcharge ==
  LastCallAtAccess =>
    /\ last.pre.Rev < EVMC_BERLIN <=> LastAccessAnswers = {}
    /\ IF last.pre.gas >= LastAccessSurcharge
       THEN /\ last.exit = "light_depth"
            /\ last.post.gas = last.pre.gas - LastAccessSurcharge
       ELSE /\ status = "EVMC_OUT_OF_GAS"
            /\ last.post.gas = last.pre.gas

\* C22 witness: before Berlin a CALL-family handler paid 100 of access
\* surcharge without asking the Host.
C22_WarmChargedBeforeBerlin ==
  /\ LastIsCall /\ last.exit = "light_depth"
  /\ last.pre.Rev < EVMC_BERLIN
  /\ LastAccessAnswers = {}
  /\ last.post.gas = last.pre.gas - WARM_ACCOUNT_ACCESS_COST

\* Before Berlin a frame with less than 100 gas ends in out-of-gas at the
\* access charge.
C22_OutOfGasBeforeBerlin ==
  /\ LastIsCall /\ last.exit = "oog_access"
  /\ last.pre.Rev < EVMC_BERLIN
  /\ status = "EVMC_OUT_OF_GAS"

\* On Berlin and later the surcharge is the one stated.
C22_BerlinSurcharge ==
  LastCallAtAccess /\ last.pre.Rev >= EVMC_BERLIN => C22_AccessSurcharge

---------------------------------------------------------------------------
(* C23: the cold-account surcharge of BALANCE and EXTCODE* *)

LastLookup ==
  /\ last.name \in {"Balance", "ExtCodeSize", "ExtCodeHash", "ExtCodeCopy"}
  /\ LastPassedArity

LastCold == last.pre.Rev >= EVMC_BERLIN /\ "COLD" \in LastAccessAnswers

\* What EXTCODECOPY pays before it looks the account up: the expansion of
\* the memory for a copy of at least one byte, and the words copied.
LastCopyCharges ==
  IF last.name = "ExtCodeCopy"
  THEN (IF peek(last.pre, 3) = 0 THEN 0
        ELSE calculateMemoryExpansionCost(Len(last.pre.Memory),
                                          peek(last.pre, 1) + peek(last.pre, 3)))
       + WORD_COPY_COST * ((peek(last.pre, 3) + 31) \div 32)
  ELSE 0

\* The last handler reached its account lookup.
LastAtLookup ==
  /\ LastLookup
  /\ last.name = "ExtCodeCopy" =>
       /\ peek(last.pre, 1) + peek(last.pre, 3) <= MAX_REQUIRED_MEMORY_SIZE
       /\ last.pre.gas >= LastCopyCharges

\* C23: BALANCE, EXTCODESIZE, EXTCODEHASH and EXTCODECOPY on Berlin and later
\* with a COLD account pay exactly 2500 when the frame has it and otherwise
\* end in out-of-gas with the surcharge not deducted and no result pushed;
\* with a WARM account, or before Berlin, nothing is deducted for the
\* access, and before Berlin host.access_account is not called.
C23_ColdSurcharge ==
  LastAtLookup =>
    /\ last.pre.Rev < EVMC_BERLIN <=> LastAccessAnswers = {}
    /\ IF LastCold
       THEN IF last.pre.gas - LastCopyCharges >= ADDITIONAL_COLD_ACCOUNT_ACCESS_COST
            THEN /\ last.exit = "done"
                 /\ last.post.gas = last.pre.gas - LastCopyCharges
                                    - ADDITIONAL_COLD_ACCOUNT_ACCESS_COST
            ELSE /\ status = "EVMC_OUT_OF_GAS"
                 /\ last.post.gas = last.pre.gas - LastCopyCharges
                 /\ stackHeight(last.post) < stackHeight(last.pre)
       ELSE /\ last.exit = "done"
            /\ last.post.gas = last.pre.gas - LastCopyCharges

\* C23 witness: EXTCODEHASH of a cold account with exactly 2500 gas left the
\* frame with none and pushed the hash.
C23_ColdPaidToTheLast ==
  /\ last.name = "ExtCodeHash" /\ LastCold
  /\ last.pre.gas = ADDITIONAL_COLD_ACCOUNT_ACCESS_COST
  /\ last.post.gas = 0
  /\ last.exit = "done"
  /\ stackHeight(last.post) = stackHeight(last.pre)

\* BALANCE of a cold account with 2499 gas ended in out-of-gas, gas kept.
C23_ColdRefused ==
  /\ last.name = "Balance" /\ LastCold
  /\ last.pre.gas = ADDITIONAL_COLD_ACCOUNT_ACCESS_COST - 1
  /\ status = "EVMC_OUT_OF_GAS"
  /\ last.post.gas = last.pre.gas

\* EXTCODECOPY of four bytes from a cold account paid expansion, copy and
\* surcharge.
C23_ColdCopyPaid ==
  /\ last.name = "ExtCodeCopy" /\ LastCold /\ last.exit = "done"
  /\ peek(last.pre, 3) = 4
  /\ last.post.gas = last.pre.gas - 3 - 3 - ADDITIONAL_COLD_ACCOUNT_ACCESS_COST

---------------------------------------------------------------------------
(* C24: CALLDATACOPY, CODECOPY, RETURNDATACOPY *)

LastCopied ==
  /\ last.name \in {"CallDataCopy", "CodeCopy", "ReturnDataCopy"}
  /\ last.exit = "done"

\* Operands of a copy: destination, source offset, size.
LastCopyDest == peek(last.pre, 0)
LastCopyOff == peek(last.pre, 1)
LastCopySize == peek(last.pre, 2)

\* The bytes the last copy reads from.
LastSource ==
  CASE last.name = "CallDataCopy" -> last.pre.input
    [] last.name = "CodeCopy" -> Code
    [] OTHER -> last.rd0

\* Byte K (0-based) of the memory the last handler left.
LastByte(K) == last.post.Memory[K + 1]

\* The bytes the memory held before the last handler are unchanged outside
\* [Dest, Dest + Size).
LastKeptOutside(Dest, Size) ==
  \A K \in 0..(Len(last.pre.Memory) - 1) :
    (K < Dest \/ K >= Dest + Size) => LastByte(K) = last.pre.Memory[K + 1]

\* C24: after a copy of size bytes from source offset off, every byte
\* memory[dest + k], k < size, is source[off + k] when off + k is inside the
\* source and 0 otherwise, for every 256-bit off; the bytes the memory held
\* outside [dest, dest + size) are unchanged.
C24_CopyPads ==
  LastCopied =>
    /\ \A K \in 0..(LastCopySize - 1) :
         LastByte(LastCopyDest + K) =
           IF LastCopyOff + K < Len(LastSource)
           THEN LastSource[LastCopyOff + K + 1] ELSE 0
    /\ LastKeptOutside(LastCopyDest, LastCopySize)

\* C24 witness: a CALLDATACOPY from source offset 2^64 + 1 copied the call
\* data from offset 1.
C24_WrappedOffsetCopied ==
  /\ LastCopied /\ last.name = "CallDataCopy"
  /\ LastCopyOff = Two64 + 1 /\ LastCopySize = 2
  /\ LastByte(LastCopyDest) = last.pre.input[2]
  /\ LastByte(LastCopyDest) # 0

\* With a source offset below 2^64 the copies are as stated.
C24_CopyPads64 ==
  LastCopied /\ LastCopyOff < Two64 => C24_CopyPads

\* A copy that ran past the end of its source and padded with zeros.
C24_Padded ==
  /\ LastCopied /\ last.name = "ReturnDataCopy"
  /\ LastCopyOff = 1 /\ LastCopySize = 4
  /\ LastByte(LastCopyDest) = 8 /\ LastByte(LastCopyDest + 1) = 0

---------------------------------------------------------------------------
(* C25: MCOPY *)

\* The end of the farther of the two ranges of the last MCOPY.
LastMCopyEnd ==
  (IF LastCopyDest < LastCopyOff THEN LastCopyOff ELSE LastCopyDest) + LastCopySize

LastMCopyCost ==
  calculateMemoryExpansionCost(Len(last.pre.Memory), LastMCopyEnd)
  + WORD_COPY_COST * ((LastCopySize + 31) \div 32)

\* An MCOPY of at least one byte, within the memory limit, that the frame
\* can pay.
LastMCopyPaid ==
  /\ last.name = "MCopy" /\ LastPassedArity
  /\ LastCopySize > 0
  /\ LastMCopyEnd <= MAX_REQUIRED_MEMORY_SIZE
  /\ last.pre.gas >= LastMCopyCost

\* Byte K (0-based) of the memory before the last handler, 0 beyond its end.
LastByteBefore(K) ==
  IF K < Len(last.pre.Memory) THEN last.pre.Memory[K + 1] ELSE 0

\* C25: MCOPY(dest, src, size), size > 0, with enough gas grows the memory
\* to at least max(dest, src) + size, charges the expansion and 3 gas per
\* word of size, and leaves memory[dest + k] equal to what memory[src + k]
\* was before, for every k < size and either way the ranges overlap; the
\* bytes outside [dest, dest + size) keep their value.
C25_MCopy ==
  LastMCopyPaid =>
    /\ last.exit = "done" /\ status = "EVMC_SUCCESS"
    /\ Len(last.post.Memory) >= LastMCopyEnd
    /\ last.post.gas = last.pre.gas - LastMCopyCost
    /\ \A K \in 0..(LastCopySize - 1) :
         LastByte(LastCopyDest + K) = LastByteBefore(LastCopyOff + K)
    /\ LastKeptOutside(LastCopyDest, LastCopySize)

\* C25 witness: an MCOPY of 8 bytes from offset 2 to offset 4, the ranges
\* overlapping, moved the bytes the source held before.
C25_OverlapForward ==
  /\ LastMCopyPaid /\ last.exit = "done"
  /\ LastCopyDest = 4 /\ LastCopyOff = 2 /\ LastCopySize = 8
  /\ last.pre.Memory # <<>>
  /\ last.pre.Memory[5] # last.pre.Memory[3]
  /\ \A K \in 0..7 : LastByte(4 + K) = last.pre.Memory[2 + K + 1]

\* The same with the destination below the source.
C25_OverlapBackward ==
  /\ LastMCopyPaid /\ last.exit = "done"
  /\ LastCopyDest = 2 /\ LastCopyOff = 4 /\ LastCopySize = 8
  /\ last.pre.Memory # <<>>
  /\ \A K \in 0..7 : LastByte(2 + K) = last.pre.Memory[4 + K + 1]

\* An MCOPY that had to grow the memory.
C25_Grew ==
  /\ LastMCopyPaid /\ last.exit = "done"
  /\ Len(last.post.Memory) > Len(last.pre.Memory)
  /\ last.post.gas < last.pre.gas - WORD_COPY_COST

---------------------------------------------------------------------------
(* C26: the size MSIZE pushes *)

LastMSize == last.name = "MSize" /\ last.exit = "done"

\* C26: after any sequence of memory-expanding handlers the size MSIZE
\* pushes is a multiple of 32.
C26_MSizeWordAligned ==
  LastMSize => peek(last.post, 0) % 32 = 0

\* C26 witness: MSIZE pushed a size that is not a multiple of 32, the length
\* the memory was resized to.
C26_MSizeUnaligned ==
  /\ LastMSize
  /\ peek(last.post, 0) = Len(last.post.Memory)
  /\ peek(last.post, 0) % 32 # 0

\* MSIZE pushes the length of the memory.
C26_MSizeIsLength ==
  LastMSize => peek(last.post, 0) = Len(last.pre.Memory)

---------------------------------------------------------------------------
(* C27: the initcode charge of CREATE / CREATE2 *)

\* A CREATE / CREATE2 with its operands in a frame that is not static.
LastCreateCharged ==
  LastIsCreate /\ LastPassedArity /\ ~isStaticMode(last.pre)

LastCodeSize == peek(last.pre, 2)

\* (2 on Shanghai and later, 6 for CREATE2) for every word of the code size,
\* as a number.
LastInitCodeCost ==
  ((IF last.pre.Rev >= EVMC_SHANGHAI THEN 2 ELSE 0)
   + (IF last.op = OP_CREATE2 THEN 6 ELSE 0)) * ((LastCodeSize + 31) \div 32)

\* C27: for every code size CREATE / CREATE2 pop in a non-static frame, a
\* size above MAX_SIZE_OF_INITCODE on Shanghai and later ends in out-of-gas;
\* otherwise the charge is the word cost times ceil(code_size / 32), not
\* wrapped, with out-of-gas when the frame has less than that.
C27_InitCodeCharge ==
  LastCreateCharged =>
    IF last.pre.Rev >= EVMC_SHANGHAI /\ LastCodeSize > MAX_SIZE_OF_INITCODE
    THEN status = "EVMC_OUT_OF_GAS"
    ELSE IF LastInitCodeCost > last.pre.gas
    THEN status = "EVMC_OUT_OF_GAS" /\ last.post.gas = last.pre.gas
    ELSE /\ last.exit # "oog_initcode"
         /\ last.exit = "light_depth" =>
              last.post.gas = last.pre.gas - LastInitCodeCost

\* C27 witness: a CREATE2 of code size 2^256 - 1 before Shanghai passed the
\* initcode charge having paid nothing.
C27_WrappedSizeFree ==
  /\ LastCreateCharged /\ last.op = OP_CREATE2
  /\ last.pre.Rev < EVMC_SHANGHAI
  /\ LastCodeSize = Two256 - 1
  /\ last.exit = "light_depth"
  /\ last.post.gas = last.pre.gas

\* For code sizes below 2^64 - 31 the charge is the one stated.
C27_InitCodeCharge64 ==
  LastCreateCharged /\ LastCodeSize < Two64 - 31 => C27_InitCodeCharge

\* A CREATE2 on Shanghai paid 8 gas for its one word of initcode.
C27_OneWordPaid ==
  /\ LastCreateCharged /\ last.op = OP_CREATE2 /\ last.exit = "light_depth"
  /\ LastCodeSize = 32 /\ last.pre.Rev >= EVMC_SHANGHAI
  /\ last.post.gas = last.pre.gas - 8

---------------------------------------------------------------------------
(* Return data after CALL and CREATE *)

LastSubCall == (LastIsCall \/ LastIsCreate) /\ LastPassedArity

\* C28: after a CALL-family or CREATE-family handler that passed its arity
\* check, the context's return data is the output of the host.call the
\* handler made, and is empty when the handler left before host.call; what
\* an earlier sub-call had left is gone either way.
C28_ReturnDataReplaced ==
  LastSubCall =>
    returnData = (IF LastCalled THEN LastResult.output_data ELSE <<>>)

\* An earlier sub-call's return data is dropped by a handler that leaves
\* before host.call.
C28_EarlierDataCleared ==
  /\ LastSubCall /\ ~LastCalled
  /\ last.rd0 # <<>> /\ returnData = <<>>

\* An earlier sub-call's return data is replaced by the callee's output.
C28_EarlierDataReplaced ==
  /\ LastIsCall /\ LastCalled
  /\ last.rd0 # <<>> /\ returnData = LastResult.output_data
  /\ returnData # <<>> /\ returnData # last.rd0

---------------------------------------------------------------------------
(* Memory accesses stay inside the memory *)

\* The range of memory the last LOG handed to emit_log.
LastLogged == last.name = "Log" /\ last.exit \in {"done", "out_of_bounds_read"}
LastLogOffset == uint256ToUint64(peek(last.pre, 0))
LastLogSize == uint256ToUint64(peek(last.pre, 1))

\* The range of memory the last RETURN / REVERT copied to the return data.
LastRanges == { [first |-> E.first, last |-> E.last] : E \in LastEvents("Memory.begin") }

\* C29: every read or write of frame memory a handler performs touches
\* only bytes inside the memory as it stands at the access, for all 256-bit
\* offsets and sizes: no handler reads outside the vector, the range a LOG
\* hands to emit_log ends within the memory, and so does the range a
\* RETURN or REVERT copies.
C29_AccessInBounds ==
  LastRan =>
    /\ last.exit # "out_of_bounds_read"
    /\ LastLogged => LastLogOffset + LastLogSize <= Len(last.post.Memory)
    /\ \A R \in LastRanges : R.first <= R.last /\ R.last <= Len(last.post.Memory)

\* A LOG whose offset and size wrap around 2^64 when added: the memory is
\* grown to the wrapped sum and emit_log is handed a range far outside it.
C29_LogWrappedRange ==
  /\ LastLogged /\ last.exit = "out_of_bounds_read"
  /\ LastLogOffset + LastLogSize >= Two64
  /\ Len(last.post.Memory) = (LastLogOffset + LastLogSize) % Two64
  /\ LastLogOffset >= Len(last.post.Memory)

\* When the 64-bit sum does not wrap, the range of a LOG is in the memory.
C29_AccessInBounds64 ==
  (LastLogged /\ LastLogOffset + LastLogSize < Two64) =>
    /\ last.exit = "done"
    /\ LastLogOffset + LastLogSize <= Len(last.post.Memory)

\* A LOG that read its data from inside the memory.
C29_LogInBounds ==
  /\ LastLogged /\ last.exit = "done" /\ LastLogSize > 0
  /\ LastLogOffset + LastLogSize <= Len(last.post.Memory)

---------------------------------------------------------------------------
(* The memory of a frame over a sequence of handlers *)

\* The last handler ran in the frame that is still the current one.
LastSameFrame == LastRan /\ Len(frames) = last.frames0 /\ Len(frames) > 0

\* The bytes the last handler wrote after expanding: 32 by MSTORE, 1 by
\* MSTORE8, none by MLOAD.
LastMemStored == last.name \in {"MStore", "MStore8", "MLoad"} /\ last.exit = "done"
LastMemStoreOffset == uint256ToUint64(peek(last.pre, 0))
LastMemStoreSize == IF last.name = "MStore" THEN 32 ELSE IF last.name = "MStore8" THEN 1 ELSE 0

\* The bytes added by the last handler are 0 outside [Dest, Dest + Size).
LastZeroOutside(Dest, Size) ==
  \A K \in Len(last.pre.Memory)..(Len(last.post.Memory) - 1) :
    (K < Dest \/ K >= Dest + Size) => LastByte(K) = 0

\* C(w) = floor(w * w / 512) + 3 * w for a memory of Length bytes.
TotalExpansionCost(Length) ==
  LET W == (Length + 31) \div 32 IN (W * W) \div 512 + 3 * W

\* C30: over any sequence of handlers in a frame the memory never shrinks
\* and never exceeds the maximum memory size, an expansion keeps the bytes
\* the memory held and fills the new ones with 0, and the expansion gas
\* charged to the frame since its start is C(ceil(length / 32)), whatever
\* the order and the sizes of the expansions.
C30_MemoryGrowth ==
  /\ \A I \in 1..Len(frames) :
       /\ Len(frames[I].Memory) <= MAX_REQUIRED_MEMORY_SIZE
       /\ frames[I].expansionGas = TotalExpansionCost(Len(frames[I].Memory))
  /\ LastSameFrame =>
       /\ Len(last.post.Memory) >= Len(last.pre.Memory)
       /\ last.post.expansionGas >= last.pre.expansionGas
  /\ LastMemStored =>
       /\ LastKeptOutside(LastMemStoreOffset, LastMemStoreSize)
       /\ LastZeroOutside(LastMemStoreOffset, LastMemStoreSize)

\* A second expansion, from a length that is no multiple of 32, to a length
\* whose cost has a quadratic part: the total is still C of the new length.
C30_GrownTwice ==
  /\ LastMemStored /\ LastSameFrame
  /\ Len(last.pre.Memory) % 32 # 0 /\ last.pre.expansionGas > 0
  /\ Len(last.post.Memory) > Len(last.pre.Memory)
  /\ CurFrame.expansionGas > 3 * ((Len(CurFrame.Memory) + 31) \div 32)
  /\ \E K \in 0..(Len(last.pre.Memory) - 1) : last.pre.Memory[K + 1] # 0

\* An MLOAD that grew the pattern memory: old bytes kept, new bytes 0.
C30_LoadGrew ==
  /\ last.name = "MLoad" /\ last.exit = "done"
  /\ last.pre.Memory = PatternMemory
  /\ Len(last.post.Memory) > 32
  /\ SubSeq(last.post.Memory, 1, 32) = PatternMemory
  /\ \A K \in 33..Len(last.post.Memory) : last.post.Memory[K] = 0

---------------------------------------------------------------------------
(* Static mode down the call chain *)

\* The sub-message of a message with the STATIC flag.
MsgIsStatic(Msg) == (Msg.flags % 2) = EVMC_STATIC

LastInherits == LastIsCall /\ last.op \in {OP_CALLCODE, OP_DELEGATECALL, OP_STATICCALL}

\* C31: every sub-message CALLCODE, DELEGATECALL or STATICCALL hands to
\* host.call from a frame whose message has the STATIC flag has the STATIC
\* flag too (and so has every sub-message of STATICCALL): static mode is
\* never dropped on the way down the call chain.
C31_StaticInherited ==
  LastInherits =>
    \A Msg \in LastMsgs :
      (isStaticMode(last.pre) \/ last.op = OP_STATICCALL) => MsgIsStatic(Msg)

\* A DELEGATECALL dispatched from a static frame, its message static.
C31_StaticDelegate ==
  /\ LastIsCall /\ last.op = OP_DELEGATECALL /\ isStaticMode(last.pre)
  /\ LastCalled /\ \A Msg \in LastMsgs : MsgIsStatic(Msg)

\* A CALLCODE dispatched from a static frame, its message static.
C31_StaticCallCode ==
  /\ LastIsCall /\ last.op = OP_CALLCODE /\ isStaticMode(last.pre)
  /\ LastCalled /\ \A Msg \in LastMsgs : MsgIsStatic(Msg)

---------------------------------------------------------------------------
(* The gas of the frames *)

\* Costs a handler may ask chargeGas for: nothing, the usual ones, and one
\* beyond any gas.
ChargeSamples == {0, 3, 50, 2500, 100000, Two64 - 1}

\* chargeGas on a frame: a refused charge leaves the gas as it was, a
\* granted one takes exactly the cost and leaves no less than 0.
ChargeIsSafe(Frame) ==
  \A Cost \in ChargeSamples :
    LET R == chargeGas(Frame, Cost)
    IN IF R.ok
       THEN R.frame.gas = Frame.gas - Cost /\ R.frame.gas >= 0
       ELSE R.frame = Frame /\ Frame.gas < Cost

\* The last handler removed the frame it ran in.
LastFreed == LastRan /\ Len(frames) = last.frames0 - 1

\* C32: in every reachable state the gas of every frame is at least 0, a
\* refused chargeGas leaves the gas unchanged, and no handler raises the
\* gas of the frame it runs in; the gas of a frame grows only when RETURN,
\* REVERT or SELFDESTRUCT removes its child and adds what the child had
\* left.
C32_GasNeverGrows ==
  /\ \A I \in 1..Len(frames) : frames[I].gas >= 0 /\ ChargeIsSafe(frames[I])
  /\ (LastRan /\ ~LastFreed) =>
       /\ Len(frames) = last.frames0
       /\ CurFrame.gas <= last.pre.gas
       /\ SubSeq(frames, 1, Len(frames) - 1) = last.below
  /\ LastFreed =>
       /\ last.name \in {"Return", "Revert", "SelfDestruct"}
       /\ last.post.gas <= last.pre.gas
       /\ frames = IF last.below = <<>>
                   THEN <<>>
                   ELSE [last.below EXCEPT ![Len(last.below)].gas = @ + last.post.gas]

\* A sub-call whose final charge is refused: the gas stays as it was after
\* the charges before host.call, and is not raised.
C32_RefusedAfterCall ==
  /\ LastIsCall /\ LastCalled
  /\ \E E \in LastEvents("call") :
       /\ ToUint64(E.msg.gas - E.result.gas_left) > E.gas_before
       /\ CurFrame.gas = E.gas_before
  /\ CurFrame.gas >= 0 /\ CurFrame.gas <= last.pre.gas

\* A handler that ends out of gas at its first charge, the gas untouched.
C32_RefusedCharge ==
  /\ LastRan /\ ~LastFreed /\ status = "EVMC_OUT_OF_GAS"
  /\ last.pre.gas > 0 /\ CurFrame.gas = last.pre.gas

\* A child removed with gas left, its parent credited.
C32_ParentCredited ==
  /\ LastFreed /\ last.below # <<>> /\ last.post.gas > 0
  /\ CurFrame.gas = last.below[Len(last.below)].gas + last.post.gas

=========================================================================
